---- MODULE Spec2Model ----
(***************************************************************************)
(* Model of the wsterm server's shell-session lifecycle                    *)
(* (src/wsterm/server.py, src/wsterm/utils.py, src/wsterm/shell.py) and of *)
(* the packet codec's streaming decoder (src/wsterm/proto.py).             *)
(*                                                                         *)
(* One action is one step of the asyncio event loop: the code a callback   *)
(* or coroutine runs between two suspension points.  The POSIX build is    *)
(* modelled (pty.fork, AsyncFileDescriptor, utils.Process).                *)
(***************************************************************************)
EXTENDS Integers, Sequences, FiniteSets, TLC

\* ------------------------------------------------------------------ bounds
MaxHandlers == 2        \* connections accepted by the server
MaxShells == 2          \* shell processes spawned
ForwardShells == 1      \* shell processes spawned where their output is followed
MaxRequests == 2        \* create-shell requests received per connection
MaxChunks == 2          \* chunks of output a shell writes
MaxTime == 7            \* clock ticks observed
TicksPerSecond == 2     \* clock resolution

\* --------------------------------------------------------- program constants
REQUEST == 1
RESPONSE == 2
SequenceBase == 65536
Nil == 0                \* Python None (no shell, no session id, no timeout)

Handlers == 1..MaxHandlers
ReaperSleep == 1 * TicksPerSecond           \* asyncio.sleep(1)
HalfSecond == TicksPerSecond \div 2         \* the delay of delay_write_file(path, 0.5)
Timeouts == {1 * TicksPerSecond}            \* session timeouts requested, in ticks

VARIABLES
    now,          \* time.time(), in ticks
    reaperWake,   \* when check_session_task wakes next; 0: manager not constructed
    sessions,     \* ShellSessionManager._sessions: id -> [timeout, shell, timestamp]
    sessionSeq,   \* number of session ids drawn so far (uuid4: never reused)
    shells,       \* the Shell objects, in order of creation
    conn,         \* handler -> "new" | "open" | "closed"
    hshell,       \* handler._shell
    hsession,     \* handler._session_id
    req,          \* the request handle_request was last called with
    poll,         \* handler is inside the spawn wait loop of handle_request
    spawn,        \* handler's spawn_shell task is scheduled
    floop,        \* position of the handler's forward_shell coroutine
    fshell,       \* the shell whose stdout the loop's read task reads
    fres,         \* result of the loop's read task
    sent,         \* the packet last written to the handler's connection
    sequence,     \* handler._sequence
    mark,         \* history: chunks the shell had written when the handler attached
    peer,         \* the receiver observed: "server" (handler) or "client" (connection)
    packets,      \* history: the messages whose packets were put on the wire
    wire,         \* bytes written by the sender and not yet delivered
    recvBuffer,   \* the receiver's _buffer
    dispatched,   \* messages handed to handle_request (server) or queued (client)
    autoReconnect,  \* WSTerminalClient._auto_reconnect
    connGen,      \* WSTerminalClient._conn: the WSTerminalConnection objects built so far
    clientConn,   \* the current connection: "connecting", "open" or "closed"
    clientSequence, \* _conn._sequence
    rspMap,       \* connection -> its _rsp_map (id -> response)
    sending,      \* send_request calls waiting in write_message
    reading,      \* read_response calls polling: [request, conn]
    unanswered,   \* requests the server has received and not answered yet
    requested,    \* history: the requests the client wrote, in order
    returned,     \* history: what read_response calls returned
    inbox,        \* websocket messages written to the server handler, not yet received
    bound,        \* the server handler's _workspace is set
    remoteFs,     \* the directory tree under the server workspace's root
    handled,      \* history: requests dispatched, with what was written in reply
    localFs,      \* the directory tree under the client workspace's root
    localExec,    \* the local files whose mode has S_IXOTH
    phase,        \* where the client's sync_workspace is
    todo,         \* requests update_workspace still has to write
    events,       \* watcher events not yet handled
    writing,      \* WSTerminalClient._writing_files: path -> time to write it at
    ops,          \* number of operations the user has done on the local workspace
    token,        \* WSTerminalServerHandler.token
    auth,         \* handler -> the Authorization header of its upgrade request
    term,         \* where the client's create_shell is, its _session_id, the
                  \* create-shell requests it wrote, and the stopping of its loop
    ino,          \* a directory watched by an INotifyWatcher: the tree, the
                  \* kernel's watches and queue, the backend and what it returned
    kev,          \* a directory watched by a KEventsWatcher: the tree, the
                  \* shadow tree, the pending kevents and what was queued
    running,      \* WSTerminalClient._running
    pump,         \* where write_file_task is, and the file write_file has open
    dirty         \* history: path -> when it was first modified since write_file
                  \* last opened it

serverVars == <<now, reaperWake, sessions, sessionSeq, shells, conn, hshell, hsession,
                 req, poll, spawn, floop, fshell, fres, sent, sequence, mark>>

codecVars == <<peer, packets, wire, recvBuffer, dispatched>>

clientVars == <<autoReconnect, connGen, clientConn, clientSequence, rspMap, sending,
                 reading, unanswered, requested, returned>>

\* the server's configuration and the upgrade requests
auxVars == <<token, auth, term, ino, kev>>

\* the client's flag and its write_file_task
pumpVars == <<running, pump, dirty>>

mirrorVars == <<localFs, localExec, phase, todo, events, writing, ops, auxVars, pumpVars>>

workspaceVars == <<inbox, bound, remoteFs, handled, mirrorVars>>

\* what the server's own steps leave alone
envVars == <<codecVars, clientVars, workspaceVars>>

vars == <<now, reaperWake, sessions, sessionSeq, shells, conn, hshell, hsession,
           req, poll, spawn, floop, fshell, fres, sent, sequence, mark,
           peer, packets, wire, recvBuffer, dispatched,
           autoReconnect, connGen, clientConn, clientSequence, rspMap, sending,
           reading, unanswered, requested, returned,
           inbox, bound, remoteFs, handled,
           localFs, localExec, phase, todo, events, writing, ops, token, auth, ino, kev, term,
           ino, kev, running, pump, dirty>>

\* ------------------------------------------------------------------ helpers
Min(S) == CHOOSE x \in S : \A y \in S : x <= y

NoRequest == [id |-> 0, command |-> "", session |-> Nil, timeout |-> Nil]

NewShell ==
    [dead |-> FALSE, returncode |-> FALSE, closed |-> FALSE, stdinExit |-> 0,
     buffer |-> <<>>, event |-> FALSE, waiters |-> <<>>, woken |-> <<>>, nout |-> 0]

Packet(type, command, id, code, message, session, buffer) ==
    [type |-> type, command |-> command, id |-> id, code |-> code,
     message |-> message, session |-> session, buffer |-> buffer]

Response(request, code, message, session) ==
    Packet(RESPONSE, request.command, request.id, code, message, session, <<>>)

Request(command, id, buffer) ==
    Packet(REQUEST, command, id, 0, <<>>, Nil, buffer)

NotFoundMessage(sid) == <<"Shell session ", sid, " not found">>

NoPacket == Packet(0, "", 0, 0, <<>>, Nil, <<>>)

\* write_message: the packet reaches the peer while the connection is open
Write(snt, h, packet) ==
    IF conn[h] = "open" THEN [snt EXCEPT ![h] = packet] ELSE snt

ShellExit(shs, s) == [shs EXCEPT ![s].stdinExit = @ + 1]

\* No connection has been accepted, no manager constructed
ServerInit ==
    /\ now = 1
    /\ reaperWake = 0
    /\ sessions = <<>>
    /\ sessionSeq = 0
    /\ shells = <<>>
    /\ conn = [h \in Handlers |-> "new"]
    /\ hshell = [h \in Handlers |-> Nil]
    /\ hsession = [h \in Handlers |-> Nil]
    /\ req = [h \in Handlers |-> NoRequest]
    /\ poll = [h \in Handlers |-> FALSE]
    /\ spawn = [h \in Handlers |-> FALSE]
    /\ floop = [h \in Handlers |-> "none"]
    /\ fshell = [h \in Handlers |-> Nil]
    /\ fres = [h \in Handlers |-> <<>>]
    /\ sent = [h \in Handlers |-> NoPacket]
    /\ sequence = [h \in Handlers |-> SequenceBase]
    /\ mark = [h \in Handlers |-> 0]

\* WSTerminalClient.__init__ with its first WSTerminalConnection, connected
ClientInit ==
    /\ connGen = 1
    /\ clientConn = "open"
    /\ clientSequence = 0
    /\ rspMap = <<<<>>>>
    /\ sending = {}
    /\ reading = {}
    /\ unanswered = {}
    /\ requested = <<>>
    /\ returned = {}

\* Names of the entries of a workspace root, and of the entries of its
\* directories
Names == <<"a", "b">>
Inner == <<"f">>
\* A root entry that the built-in ignore rule *.pyc matches
Compiled == <<"c.pyc">>

\* Paths relative to a workspace root, as sequences of names ("a/f" is <<"a", "f">>)
Paths ==
    {<<Names[i]>> : i \in 1..Len(Names)}
        \cup {<<Names[i], Inner[j]>> : i \in 1..Len(Names), j \in 1..Len(Inner)}
        \cup {Compiled}

\* What a directory tree holds at a path
Absent == [kind |-> "none", data |-> <<>>]
Dir == [kind |-> "dir", data |-> <<>>]
File(data) == [kind |-> "file", data |-> data]

\* An empty workspace root
EmptyFs == [p \in Paths |-> Absent]

\* Python's None as a header, "" as a token: no header, no token
NoText == <<>>

\* No watcher backend was constructed
NoWatcher == <<>>

\* create_shell was not called yet
TermIdle == [at |-> "start", session |-> Nil, sent |-> <<>>,
             exiting |-> FALSE, stopped |-> FALSE]

\* A server without a token; no upgrade request seen yet
AuxIdle ==
    /\ token = NoText
    /\ auth = [h \in Handlers |-> NoText]
    /\ term = TermIdle
    /\ ino = NoWatcher
    /\ kev = NoWatcher

\* connect() was called on the new client, write_file_task has found
\* _writing_files empty and sleeps
PumpIdle ==
    /\ running = TRUE
    /\ pump = [at |-> "sleep", path |-> <<>>, offset |-> 0]
    /\ dirty = <<>>

\* The client was not asked to mirror a workspace
MirrorIdle ==
    /\ localFs = EmptyFs
    /\ localExec = {}
    /\ phase = "idle"
    /\ todo = <<>>
    /\ events = <<>>
    /\ writing = <<>>
    /\ ops = 0
    /\ PumpIdle

\* No workspace request was sent, the server workspace directory is empty
WorkspaceIdle ==
    /\ inbox = <<>>
    /\ bound = FALSE
    /\ remoteFs = EmptyFs
    /\ handled = <<>>
    /\ MirrorIdle
    /\ AuxIdle

\* Nothing on the wire
CodecIdle ==
    /\ peer = "server"
    /\ packets = <<>>
    /\ wire = <<>>
    /\ recvBuffer = <<>>
    /\ dispatched = <<>>

\* The server at its start, nothing on the wire, a client without
\* auto-reconnect
Init ==
    /\ ServerInit
    /\ CodecIdle
    /\ ClientInit
    /\ autoReconnect = FALSE
    /\ WorkspaceIdle

\* No callback is waiting in the event loop's ready queue.  Callbacks scheduled
\* with call_soon (a task's first step, the continuation of an awaited future)
\* run before the loop polls again for I/O and timers, so messages, output and
\* timers are handled only when no such callback is pending; a close may be
\* found in the same poll as the event that scheduled them and is not held back.
Quiet ==
    \A h \in Handlers : ~spawn[h] /\ floop[h] \notin {"sched", "read", "woken", "got"}

\* ------------------------------------------------- connections and requests
\* A client connects: WSTerminalServerHandler.__init__ (handlers are
\* interchangeable, so they are taken in order).
Connect(h) ==
    /\ Quiet
    /\ conn[h] = "new"
    /\ \A g \in 1..(h - 1) : conn[g] # "new"
    /\ conn' = [conn EXCEPT ![h] = "open"]
    /\ UNCHANGED <<now, reaperWake, sessions, sessionSeq, shells, hshell, hsession,
                   req, poll, spawn, floop, fshell, fres, sent, sequence, mark>>
    /\ UNCHANGED envVars

\* ShellSessionManager.update_session_time, the session being registered
UpdateSessionTime(ss, sid, timestamp) == [ss EXCEPT ![sid].timestamp = timestamp]

\* handle_request, create-shell on a handler that has a shell
ShellIsCreated(h, r) ==
    /\ sent' = Write(sent, h, Response(r, -1, <<"Shell is created">>, Nil))
    /\ UNCHANGED <<sessions, hshell, hsession, spawn, poll, floop, mark>>

\* SessionNotFound with the session id stored before the lookup
SessionNotFoundKeepsId(h, r) ==
    /\ sent' = Write(sent, h, Response(r, -1, NotFoundMessage(r.session), Nil))
    /\ hsession' = [hsession EXCEPT ![h] = r.session]
    /\ UNCHANGED <<sessions, hshell, spawn, poll, floop, mark>>

\* handle_request, create-shell naming a session get_session does not find
SessionNotFound(h, r) ==
    /\ sent' = Write(sent, h, Response(r, -1, NotFoundMessage(r.session), Nil))
    /\ UNCHANGED <<sessions, hshell, hsession, spawn, poll, floop, mark>>

\* UseCachedShell without its update_session_time(session_id, 0)
UseCachedShellKeepsTime(h, r) ==
    /\ hsession' = [hsession EXCEPT ![h] = r.session]
    /\ hshell' = [hshell EXCEPT ![h] = sessions[r.session].shell]
    /\ floop' = [floop EXCEPT ![h] = "sched"]
    /\ mark' = [mark EXCEPT ![h] = shells[sessions[r.session].shell].nout]
    /\ sent' = Write(sent, h, Response(r, 0, <<"">>, Nil))
    /\ UNCHANGED <<sessions, spawn, poll>>

\* handle_request, create-shell naming a registered session: the cached shell
\* is attached and forward_shell scheduled
UseCachedShell(h, r) ==
    /\ hsession' = [hsession EXCEPT ![h] = r.session]
    /\ hshell' = [hshell EXCEPT ![h] = sessions[r.session].shell]
    /\ sessions' = UpdateSessionTime(sessions, r.session, 0)
    /\ floop' = [floop EXCEPT ![h] = "sched"]
    /\ mark' = [mark EXCEPT ![h] = shells[sessions[r.session].shell].nout]
    /\ sent' = Write(sent, h, Response(r, 0, <<"">>, Nil))
    /\ UNCHANGED <<spawn, poll>>

\* handle_request, create-shell without a session id: spawn_shell is
\* scheduled and the handler polls for its shell
SpawnRequested(h, limit) ==
    /\ Len(shells) + Cardinality({g \in Handlers : spawn[g]}) < limit
    /\ spawn' = [spawn EXCEPT ![h] = TRUE]
    /\ poll' = [poll EXCEPT ![h] = TRUE]
    /\ UNCHANGED <<sessions, hshell, hsession, floop, mark, sent>>

\* on_message -> handle_request with a create-shell request carrying
\* session sid (Nil: none) and timeout tmo (Nil: none), up to its first
\* suspension; limit bounds the shells the model lets the server spawn.
\* tornado awaits on_message before it delivers the next message, so no
\* request arrives while the handler polls for its shell.
CreateShell(h, sid, tmo, limit) ==
    /\ Quiet
    /\ conn[h] = "open"
    /\ ~poll[h]
    /\ req[h].id < MaxRequests
    /\ LET r == [id |-> req[h].id + 1, command |-> "create-shell",
                 session |-> sid, timeout |-> tmo]
       IN /\ req' = [req EXCEPT ![h] = r]
          \* ssm = ShellSessionManager(): the first call constructs the singleton
          \* and starts check_session_task, whose first pass finds nothing to reap
          /\ reaperWake' = IF reaperWake = 0 THEN now + ReaperSleep ELSE reaperWake
          /\ IF hshell[h] # Nil THEN ShellIsCreated(h, r)
             ELSE IF sid = Nil THEN SpawnRequested(h, limit)
             ELSE IF sid \notin DOMAIN sessions THEN SessionNotFound(h, r)
             ELSE UseCachedShell(h, r)
    /\ UNCHANGED <<now, sessionSeq, shells, conn, fshell, fres, sequence>>
    /\ UNCHANGED envVars

\* spawn_shell: Shell.create (pty.fork) sets the handler's shell, then
\* forward_shell runs inline up to its first asyncio.wait.
SpawnShell(h) ==
    /\ spawn[h]
    /\ spawn' = [spawn EXCEPT ![h] = FALSE]
    /\ shells' = Append(shells, NewShell)
    /\ hshell' = [hshell EXCEPT ![h] = Len(shells) + 1]
    /\ floop' = [floop EXCEPT ![h] = "read"]
    /\ fshell' = [fshell EXCEPT ![h] = Len(shells) + 1]
    /\ mark' = [mark EXCEPT ![h] = 0]
    /\ UNCHANGED <<now, reaperWake, sessions, sessionSeq, conn, hsession, req, poll,
                   fres, sent, sequence>>
    /\ UNCHANGED envVars

\* handle_request's wait loop sees the shell: create_session when a timeout
\* was asked for, then the response.
SpawnPollDone(h) ==
    /\ Quiet
    /\ poll[h]
    /\ hshell[h] # Nil
    /\ poll' = [poll EXCEPT ![h] = FALSE]
    /\ IF req[h].timeout # Nil
       THEN /\ sessionSeq' = sessionSeq + 1
            /\ sessions' = sessions @@ ((sessionSeq + 1) :>
                   [timeout |-> req[h].timeout, shell |-> hshell[h], timestamp |-> 0])
            /\ hsession' = [hsession EXCEPT ![h] = sessionSeq + 1]
            /\ sent' = Write(sent, h, Response(req[h], 0, <<"">>, sessionSeq + 1))
       ELSE /\ sent' = Write(sent, h, Response(req[h], 0, <<"">>, Nil))
            /\ UNCHANGED <<sessionSeq, sessions, hsession>>
    /\ UNCHANGED <<now, reaperWake, shells, conn, hshell, req, spawn, floop, fshell,
                   fres, sequence, mark>>
    /\ UNCHANGED envVars

\* handle_request's wait loop gives up after 5 s without a shell (the
\* spawned shell was already dropped by a close or by its own exit).
SpawnPollTimeout(h) ==
    /\ Quiet
    /\ poll[h]
    /\ ~spawn[h]
    /\ hshell[h] = Nil
    /\ poll' = [poll EXCEPT ![h] = FALSE]
    /\ sent' = Write(sent, h, Response(req[h], -1, <<"Spawn shell timeout">>, Nil))
    /\ UNCHANGED <<now, reaperWake, sessions, sessionSeq, shells, conn, hshell,
                   hsession, req, spawn, floop, fshell, fres, sequence, mark>>
    /\ UNCHANGED envVars

\* on_connection_close.  update_session_time asserts that the session is
\* registered: when it is not, the exception leaves the shell handle set.
Close(h) ==
    /\ conn[h] = "open"
    /\ conn' = [conn EXCEPT ![h] = "closed"]
    /\ IF hshell[h] = Nil
       THEN UNCHANGED <<shells, sessions, hshell>>
       ELSE IF hsession[h] = Nil
       THEN /\ shells' = ShellExit(shells, hshell[h])
            /\ hshell' = [hshell EXCEPT ![h] = Nil]
            /\ UNCHANGED sessions
       ELSE IF hsession[h] \in DOMAIN sessions
       THEN /\ sessions' = UpdateSessionTime(sessions, hsession[h], now)
            /\ hshell' = [hshell EXCEPT ![h] = Nil]
            /\ UNCHANGED shells
       ELSE UNCHANGED <<shells, sessions, hshell>>
    /\ UNCHANGED <<now, reaperWake, sessionSeq, hsession, req, poll, spawn, floop,
                   fshell, fres, sent, sequence, mark>>
    /\ UNCHANGED envVars

\* ------------------------------------------------------------ reaper, clock
\* Expired without the session's timeout
ExpiredAtOnce(s) ==
    /\ sessions[s].timestamp # 0
    /\ now >= sessions[s].timestamp

\* check_session_task's test of one session
Expired(s) ==
    /\ sessions[s].timestamp # 0
    /\ now >= sessions[s].timestamp + sessions[s].timeout

\* The reaper's eviction without shell.exit()
PopSessionOnly(s) ==
    /\ sessions' = [x \in DOMAIN sessions \ {s} |-> sessions[x]]
    /\ UNCHANGED shells

\* check_session_task, "Clean session": shell.exit() and the pop
CleanSession(s) ==
    /\ shells' = ShellExit(shells, sessions[s].shell)
    /\ sessions' = [x \in DOMAIN sessions \ {s} |-> sessions[x]]

\* One pass of check_session_task: the first expired session in dictionary
\* (insertion) order is terminated and popped, then the loop breaks and
\* sleeps one second.
CheckSession ==
    /\ Quiet
    /\ reaperWake # 0
    /\ now = reaperWake
    /\ reaperWake' = now + ReaperSleep
    /\ LET expired == {s \in DOMAIN sessions : Expired(s)}
       IN IF expired = {}
          THEN UNCHANGED <<sessions, shells>>
          ELSE CleanSession(Min(expired))
    /\ UNCHANGED <<now, sessionSeq, conn, hshell, hsession, req, poll, spawn, floop,
                   fshell, fres, sent, sequence, mark>>
    /\ UNCHANGED envVars

\* Time passes; a sleeping reaper wakes on time.
Tick ==
    /\ Quiet
    /\ now < MaxTime
    /\ reaperWake # 0 => now < reaperWake
    /\ now' = now + 1
    /\ UNCHANGED <<reaperWake, sessions, sessionSeq, shells, conn, hshell, hsession,
                   req, poll, spawn, floop, fshell, fres, sent, sequence, mark>>
    /\ UNCHANGED envVars


\* --------------------------------------------------- shell process and pty
\* asyncio.Event.set() in read_callback: every waiting read is made ready, in
\* the order the reads began to wait.
SetEvent(sh) ==
    [sh EXCEPT !.event = TRUE, !.woken = sh.woken \o sh.waiters, !.waiters = <<>>]

Range(q) == {q[i] : i \in 1..Len(q)}

WakeLoops(s) ==
    [h \in Handlers |->
        IF floop[h] = "wait" /\ fshell[h] = s THEN "woken" ELSE floop[h]]

\* The shell writes a chunk to its terminal: AsyncFileDescriptor.read_callback
\* appends what os.read returns and sets the event.
ShellOutput(s) ==
    /\ Quiet
    /\ s \in DOMAIN shells
    /\ ~shells[s].dead
    /\ shells[s].nout < MaxChunks
    /\ shells' = [shells EXCEPT ![s] =
           SetEvent([@ EXCEPT !.nout = @ + 1, !.buffer = Append(@, shells[s].nout + 1)])]
    /\ floop' = WakeLoops(s)
    /\ UNCHANGED <<now, reaperWake, sessions, sessionSeq, conn, hshell, hsession, req,
                   poll, spawn, fshell, fres, sent, sequence, mark>>
    /\ UNCHANGED envVars

\* The shell process terminates (asked to by `exit`, or on its own).
ProcessExit(s) ==
    /\ s \in DOMAIN shells
    /\ ~shells[s].dead
    /\ shells' = [shells EXCEPT ![s].dead = TRUE]
    /\ UNCHANGED <<now, reaperWake, sessions, sessionSeq, conn, hshell, hsession, req,
                   poll, spawn, floop, fshell, fres, sent, sequence, mark>>
    /\ UNCHANGED envVars

\* read_callback once the child is gone: os.read raises OSError, the reader is
\* removed and the event set.
ReadError(s) ==
    /\ Quiet
    /\ s \in DOMAIN shells
    /\ shells[s].dead
    /\ ~shells[s].closed
    /\ shells' = [shells EXCEPT ![s] = SetEvent([@ EXCEPT !.closed = TRUE])]
    /\ floop' = WakeLoops(s)
    /\ UNCHANGED <<now, reaperWake, sessions, sessionSeq, conn, hshell, hsession, req,
                   poll, spawn, fshell, fres, sent, sequence, mark>>
    /\ UNCHANGED envVars

\* Process._wait_for_exit: waitpid reports the child, returncode is set.
WaitForExit(s) ==
    /\ Quiet
    /\ s \in DOMAIN shells
    /\ shells[s].dead
    /\ ~shells[s].returncode
    /\ shells' = [shells EXCEPT ![s].returncode = TRUE]
    /\ UNCHANGED <<now, reaperWake, sessions, sessionSeq, conn, hshell, hsession, req,
                   poll, spawn, floop, fshell, fres, sent, sequence, mark>>
    /\ UNCHANGED envVars

\* ------------------------------------------------------------ forward_shell
\* send_request: the sequence number is drawn, then the packet written;
\* writing on a closed connection raises.
\* The loop condition of forward_shell and what follows the loop.  snt and sq
\* are sent and sequence as the caller leaves them.
LoopTop(h, snt, sq) ==
    IF hshell[h] # Nil /\ ~shells[hshell[h]].returncode
    THEN /\ floop' = [floop EXCEPT ![h] = "read"]
         /\ fshell' = [fshell EXCEPT ![h] = hshell[h]]
         /\ sent' = snt
         /\ sequence' = sq
         /\ hshell' = hshell
    ELSE /\ floop' = [floop EXCEPT ![h] = "none"]
         /\ fshell' = [fshell EXCEPT ![h] = Nil]
         /\ IF hshell[h] = Nil
            THEN sent' = snt /\ sequence' = sq /\ hshell' = hshell
            ELSE /\ sequence' = [sq EXCEPT ![h] = @ + 1]
                 /\ sent' = Write(snt, h, Request("exit-shell", sq[h] + 1, <<>>))
                 /\ hshell' = IF conn[h] = "open"
                              THEN [hshell EXCEPT ![h] = Nil] ELSE hshell

\* forward_shell begins (scheduled by the reattach branch of handle_request);
\* with the shell handle already null, self._shell.stderr raises.
ForwardStart(h) ==
    /\ floop[h] = "sched"
    /\ IF hshell[h] = Nil
       THEN /\ floop' = [floop EXCEPT ![h] = "none"]
            /\ UNCHANGED <<fshell, sent, sequence, hshell>>
       ELSE LoopTop(h, sent, sequence)
    /\ UNCHANGED <<now, reaperWake, sessions, sessionSeq, shells, conn, hsession, req,
                   poll, spawn, fres, mark>>
    /\ UNCHANGED envVars

\* The read task begins, AsyncFileDescriptor.read: with the event set it
\* clears it and takes the buffer, otherwise it waits.
ReadStart(h) ==
    /\ floop[h] = "read"
    /\ LET s == fshell[h]
       IN IF shells[s].event
          THEN /\ shells' = [shells EXCEPT ![s].event = FALSE, ![s].buffer = <<>>]
               /\ fres' = [fres EXCEPT ![h] = shells[s].buffer]
               /\ floop' = [floop EXCEPT ![h] = "got"]
          ELSE /\ shells' = [shells EXCEPT ![s].waiters = Append(@, h)]
               /\ floop' = [floop EXCEPT ![h] = "wait"]
               /\ UNCHANGED fres
    /\ UNCHANGED <<now, reaperWake, sessions, sessionSeq, conn, hshell, hsession, req,
                   poll, spawn, fshell, sent, sequence, mark>>
    /\ UNCHANGED envVars

\* A read that waited resumes after event.wait(): it clears the event and
\* takes whatever the buffer holds now.
ReadResume(h) ==
    /\ floop[h] = "woken"
    /\ LET s == fshell[h]
       IN /\ Head(shells[s].woken) = h
          /\ shells' = [shells EXCEPT ![s].event = FALSE, ![s].buffer = <<>>,
                                      ![s].woken = Tail(@)]
          /\ fres' = [fres EXCEPT ![h] = shells[s].buffer]
    /\ floop' = [floop EXCEPT ![h] = "got"]
    /\ UNCHANGED <<now, reaperWake, sessions, sessionSeq, conn, hshell, hsession, req,
                   poll, spawn, fshell, sent, sequence, mark>>
    /\ UNCHANGED envVars

\* asyncio.wait returns the finished read: an empty buffer sleeps 10 ms, a
\* chunk is sent as write-stdout if the handler still has its shell; then the
\* loop condition is evaluated again.
ForwardChunk(h) ==
    /\ floop[h] = "got"
    /\ fres' = [fres EXCEPT ![h] = <<>>]
    /\ IF fres[h] = <<>>
       THEN /\ floop' = [floop EXCEPT ![h] = "sleep"]
            /\ UNCHANGED <<fshell, sent, sequence, hshell>>
       ELSE IF hshell[h] = Nil
       THEN LoopTop(h, sent, sequence)
       ELSE IF conn[h] = "open"
       THEN LoopTop(h, Write(sent, h, Request("write-stdout", sequence[h] + 1, fres[h])),
                    [sequence EXCEPT ![h] = @ + 1])
       ELSE /\ floop' = [floop EXCEPT ![h] = "none"]
            /\ sequence' = [sequence EXCEPT ![h] = @ + 1]
            /\ UNCHANGED <<fshell, sent, hshell>>
    /\ UNCHANGED <<now, reaperWake, sessions, sessionSeq, shells, conn, hsession, req,
                   poll, spawn, mark>>
    /\ UNCHANGED envVars

\* The 10 ms sleep after an empty read ends.
ForwardSleep(h) ==
    /\ Quiet
    /\ floop[h] = "sleep"
    /\ LoopTop(h, sent, sequence)
    /\ UNCHANGED <<now, reaperWake, sessions, sessionSeq, shells, conn, hsession, req,
                   poll, spawn, fres, mark>>
    /\ UNCHANGED envVars

\* ------------------------------------------------------------ specification
SessionIds == 1..MaxShells

\* The parameters WSTerminalClient.create_shell sends: a timeout under
\* auto-reconnect, and with it the session id once the client has one.
Params ==
    {[session |-> Nil, timeout |-> tmo] : tmo \in {Nil} \cup Timeouts}
        \cup {[session |-> sid, timeout |-> tmo] : sid \in SessionIds, tmo \in Timeouts}

\* The server with its clock and reaper, over shells that neither write nor
\* exit while observed.
NextSession ==
    \/ \E h \in Handlers : Connect(h)
    \/ \E h \in Handlers, p \in Params : CreateShell(h, p.session, p.timeout, MaxShells)
    \/ \E h \in Handlers : SpawnShell(h)
    \/ \E h \in Handlers : SpawnPollDone(h)
    \/ \E h \in Handlers : SpawnPollTimeout(h)
    \/ \E h \in Handlers : Close(h)
    \/ CheckSession
    \/ Tick
    \/ \E h \in Handlers : ForwardStart(h)
    \/ \E h \in Handlers : ReadStart(h)

SpecSession == Init /\ [][NextSession]_vars

\* The server within one tick of the clock (no session times out), with the
\* shells writing output and exiting.
NextForward ==
    \/ \E h \in Handlers : Connect(h)
    \/ \E h \in Handlers, p \in Params : CreateShell(h, p.session, p.timeout, ForwardShells)
    \/ \E h \in Handlers : SpawnShell(h)
    \/ \E h \in Handlers : SpawnPollDone(h)
    \/ \E h \in Handlers : SpawnPollTimeout(h)
    \/ \E h \in Handlers : Close(h)
    \/ \E s \in 1..MaxShells : ShellOutput(s)
    \/ \E s \in 1..MaxShells : ProcessExit(s)
    \/ \E s \in 1..MaxShells : ReadError(s)
    \/ \E s \in 1..MaxShells : WaitForExit(s)
    \/ \E h \in Handlers : ForwardStart(h)
    \/ \E h \in Handlers : ReadStart(h)
    \/ \E h \in Handlers : ReadResume(h)
    \/ \E h \in Handlers : ForwardChunk(h)
    \/ \E h \in Handlers : ForwardSleep(h)

SpecForward == Init /\ [][NextForward]_vars


\* ------------------------------------------------------------- packet codec
\* A value of a message: an integer, a text string, a byte string, or a
\* tuple or list of integers.
IntV(n) == [t |-> "int", n |-> n, s |-> "", b |-> <<>>]
StrV(s) == [t |-> "str", n |-> 0, s |-> s, b |-> <<>>]
BinV(b) == [t |-> "bin", n |-> 0, s |-> "", b |-> b]
TupleV(items) == [t |-> "tuple", n |-> 0, s |-> "", b |-> items]
ListV(items) == [t |-> "list", n |-> 0, s |-> "", b |-> items]
BoolV(x) == [t |-> "bool", n |-> IF x THEN 1 ELSE 0, s |-> "", b |-> <<>>]
\* a dict, as the sequence of its items <<key, value>>
MapV(items) == [t |-> "map", n |-> 0, s |-> "", b |-> items]

\* str.encode("utf-8") on the texts of the protocol
Utf8(s) ==
    CASE s = "" -> <<>>
      [] s = "command" -> <<99, 111, 109, 109, 97, 110, 100>>
      [] s = "type" -> <<116, 121, 112, 101>>
      [] s = "id" -> <<105, 100>>
      [] s = "code" -> <<99, 111, 100, 101>>
      [] s = "message" -> <<109, 101, 115, 115, 97, 103, 101>>
      [] s = "buffer" -> <<98, 117, 102, 102, 101, 114>>
      [] s = "write-stdin" -> <<119, 114, 105, 116, 101, 45, 115, 116, 100, 105, 110>>
      [] s = "write-stdout" -> <<119, 114, 105, 116, 101, 45, 115, 116, 100, 111, 117, 116>>
      [] s = "size" -> <<115, 105, 122, 101>>
      [] s = "resize-shell" ->
             <<114, 101, 115, 105, 122, 101, 45, 115, 104, 101, 108, 108>>
      [] s = "exit-shell" -> <<101, 120, 105, 116, 45, 115, 104, 101, 108, 108>>
      [] s = "list-dir" -> <<108, 105, 115, 116, 45, 100, 105, 114>>
      [] s = "path" -> <<112, 97, 116, 104>>
      [] s = "sync-workspace" ->
             <<115, 121, 110, 99, 45, 119, 111, 114, 107, 115, 112, 97, 99, 101>>
      [] s = "workspace" -> <<119, 111, 114, 107, 115, 112, 97, 99, 101>>
      [] s = "ws" -> <<119, 115>>
      [] s = "create-dir" -> <<99, 114, 101, 97, 116, 101, 45, 100, 105, 114>>
      [] s = "remove-dir" -> <<114, 101, 109, 111, 118, 101, 45, 100, 105, 114>>
      [] s = "write-file" -> <<119, 114, 105, 116, 101, 45, 102, 105, 108, 101>>
      [] s = "remove-file" -> <<114, 101, 109, 111, 118, 101, 45, 102, 105, 108, 101>>
      [] s = "move-item" -> <<109, 111, 118, 101, 45, 105, 116, 101, 109>>
      [] s = "src_path" -> <<115, 114, 99, 95, 112, 97, 116, 104>>
      [] s = "dst_path" -> <<100, 115, 116, 95, 112, 97, 116, 104>>
      [] s = "data" -> <<100, 97, 116, 97>>
      [] s = "overwrite" -> <<111, 118, 101, 114, 119, 114, 105, 116, 101>>
      [] s = "a" -> <<97>>
      [] s = "b" -> <<98>>
      [] s = "a/f" -> <<97, 47, 102>>
      [] s = "b/f" -> <<98, 47, 102>>
      [] s = "c.pyc" -> <<99, 46, 112, 121, 99>>
      [] s = "Shell not create" ->
             <<83, 104, 101, 108, 108, 32, 110, 111, 116, 32, 99, 114, 101, 97, 116, 101>>

Texts ==
    {"", "command", "type", "id", "code", "message", "buffer", "write-stdin",
     "write-stdout", "exit-shell", "Shell not create", "size", "resize-shell",
     "list-dir", "path", "sync-workspace", "workspace", "ws", "create-dir",
     "remove-dir", "write-file", "remove-file", "move-item", "src_path", "dst_path",
     "data", "overwrite", "a", "b", "a/f", "b/f", "c.pyc"}

\* bytes.decode("utf-8")
FromUtf8(b) == CHOOSE s \in Texts : Utf8(s) = b

\* n as k bytes, most significant first
RECURSIVE BigEndian(_, _)
BigEndian(n, k) ==
    IF k = 0 THEN <<>> ELSE Append(BigEndian(n \div 256, k - 1), n % 256)

RECURSIVE FromBigEndian(_)
FromBigEndian(b) ==
    IF b = <<>> THEN 0
    ELSE FromBigEndian(SubSeq(b, 1, Len(b) - 1)) * 256 + b[Len(b)]

\* msgpack's encoding of an integer: fixint, uint8/16/32
PackInt(n) ==
    IF n >= 0 /\ n < 128 THEN <<n>>
    ELSE IF n < 0 /\ n >= -32 THEN <<256 + n>>
    ELSE IF n < 256 THEN <<204>> \o BigEndian(n, 1)
    ELSE IF n < 65536 THEN <<205>> \o BigEndian(n, 2)
    ELSE <<206>> \o BigEndian(n, 4)

RECURSIVE PackInts(_)
PackInts(items) ==
    IF items = <<>> THEN <<>> ELSE PackInt(Head(items)) \o PackInts(Tail(items))

\* msgpack's encoding of one value: integer, true and false, fixstr, bin8,
\* and fixarray for a tuple as for a list
PackValue(v) ==
    CASE v.t = "int" -> PackInt(v.n)
      [] v.t = "bool" -> <<194 + v.n>>
      [] v.t = "str" -> <<160 + Len(Utf8(v.s))>> \o Utf8(v.s)
      [] v.t = "bin" -> <<196, Len(v.b)>> \o v.b
      [] v.t \in {"tuple", "list"} -> <<144 + Len(v.b)>> \o PackInts(v.b)

\* msgpack.dumps of a dict, given as the sequence of its items: fixmap
RECURSIVE PackItems(_)
PackItems(m) ==
    IF m = <<>> THEN <<>>
    ELSE PackValue(StrV(m[1][1])) \o PackValue(m[1][2]) \o PackItems(Tail(m))

Dumps(m) == <<128 + Len(m)>> \o PackItems(m)

\* msgpack's decoding of the integer a byte string begins with, and the rest
UnpackInt(b) ==
    LET c == b[1]
        Sized(k) == [n |-> FromBigEndian(SubSeq(b, 2, 1 + k)),
                     rest |-> SubSeq(b, 2 + k, Len(b))]
    IN CASE c < 128 -> [n |-> c, rest |-> Tail(b)]
         [] c >= 224 -> [n |-> c - 256, rest |-> Tail(b)]
         [] c = 204 -> Sized(1)
         [] c = 205 -> Sized(2)
         [] c = 206 -> Sized(4)

\* the k integers a byte string begins with, and the rest
RECURSIVE UnpackInts(_, _)
UnpackInts(b, k) ==
    IF k = 0 THEN [items |-> <<>>, rest |-> b]
    ELSE LET first == UnpackInt(b)
             others == UnpackInts(first.rest, k - 1)
         IN [items |-> <<first.n>> \o others.items, rest |-> others.rest]

\* msgpack's decoding of the value a byte string begins with, and the rest;
\* an array is returned as a list
UnpackValue(b) ==
    LET c == b[1]
    IN CASE c >= 160 /\ c < 192 ->
                [value |-> StrV(FromUtf8(SubSeq(b, 2, 1 + (c - 160)))),
                 rest |-> SubSeq(b, 2 + (c - 160), Len(b))]
         [] c = 196 -> [value |-> BinV(SubSeq(b, 3, 2 + b[2])),
                        rest |-> SubSeq(b, 3 + b[2], Len(b))]
         [] c >= 144 /\ c < 160 ->
                [value |-> ListV(UnpackInts(Tail(b), c - 144).items),
                 rest |-> UnpackInts(Tail(b), c - 144).rest]
         [] c \in {194, 195} -> [value |-> BoolV(c = 195), rest |-> Tail(b)]
         [] OTHER -> [value |-> IntV(UnpackInt(b).n), rest |-> UnpackInt(b).rest]

RECURSIVE UnpackItems(_, _)
UnpackItems(b, n) ==
    IF n = 0 THEN <<>>
    ELSE LET key == UnpackValue(b)
             val == UnpackValue(key.rest)
         IN <<<<key.value.s, val.value>>>> \o UnpackItems(val.rest, n - 1)

\* msgpack.loads of the encoding of a dict
Loads(b) == UnpackItems(Tail(b), b[1] - 128)

\* TransportPacket.serialize: struct.pack("!I", len) and the msgpack body
serialize(message) == BigEndian(Len(Dumps(message)), 4) \o Dumps(message)

\* deserialize dropping the length prefix of a packet that is not complete yet
deserializeEatsPrefix(buf) ==
    IF Len(buf) < 4
    THEN [packet |-> FALSE, message |-> <<>>, buffer |-> buf]
    ELSE LET buffer_size == FromBigEndian(SubSeq(buf, 1, 4))
         IN IF Len(buf) - 4 < buffer_size
            THEN [packet |-> FALSE, message |-> <<>>, buffer |-> SubSeq(buf, 5, Len(buf))]
            ELSE [packet |-> TRUE,
                  message |-> Loads(SubSeq(buf, 5, 4 + buffer_size)),
                  buffer |-> SubSeq(buf, 5 + buffer_size, Len(buf))]

\* TransportPacket.deserialize: the first packet of the buffer, if it is
\* complete, and what follows it
deserialize(buf) ==
    IF Len(buf) < 4
    THEN [packet |-> FALSE, message |-> <<>>, buffer |-> buf]
    ELSE LET buffer_size == FromBigEndian(SubSeq(buf, 1, 4))
         IN IF Len(buf) - 4 < buffer_size
            THEN [packet |-> FALSE, message |-> <<>>, buffer |-> buf]
            ELSE [packet |-> TRUE,
                  message |-> Loads(SubSeq(buf, 5, 4 + buffer_size)),
                  buffer |-> SubSeq(buf, 5 + buffer_size, Len(buf))]

\* The dict send_request builds
RequestData(command, id, kwargs) ==
    <<<<"command", StrV(command)>>, <<"type", IntV(REQUEST)>>, <<"id", IntV(id)>>>>
        \o kwargs

\* The dict send_response builds
ResponseData(command, id, code, message) ==
    <<<<"command", StrV(command)>>, <<"type", IntV(RESPONSE)>>, <<"id", IntV(id)>>,
      <<"code", IntV(code)>>, <<"message", StrV(message)>>>>

\* msgpack.loads(msgpack.dumps(m)) as Python compares it with m: every tuple
\* has become a list
AsLoaded(m) ==
    [i \in 1..Len(m) |->
        <<m[i][1], IF m[i][2].t = "tuple" THEN ListV(m[i][2].b) ELSE m[i][2]>>]

\* dict lookup: the value stored under key
Get(m, key) == m[CHOOSE i \in 1..Len(m) : m[i][1] = key][2]

\* The handler that receives when the server is the observed peer
Receiver == Min(Handlers)

\* Server handler on_message with the next n bytes of the wire: the chunk is
\* appended to _buffer, deserialize is called once, and a packet it returns
\* goes to handle_request; the handler has no shell, so write-stdin is
\* answered with code -1.
ServerOnMessage(n) ==
    /\ peer = "server"
    /\ conn[Receiver] = "open"
    /\ n \in 1..Len(wire)
    /\ wire' = SubSeq(wire, n + 1, Len(wire))
    /\ LET r == deserialize(recvBuffer \o SubSeq(wire, 1, n))
       IN /\ recvBuffer' = r.buffer
          /\ IF r.packet
             THEN /\ dispatched' = Append(dispatched, r.message)
                  /\ sent' = Write(sent, Receiver,
                         Response([command |-> Get(r.message, "command").s,
                                   id |-> Get(r.message, "id").n],
                                  -1, <<"Shell not create">>, Nil))
             ELSE UNCHANGED <<dispatched, sent>>
    /\ UNCHANGED <<now, reaperWake, sessions, sessionSeq, shells, conn, hshell, hsession,
                   req, poll, spawn, floop, fshell, fres, sequence, mark, peer, packets>>
    /\ UNCHANGED <<clientVars, workspaceVars>>

\* Client connection on_message with the next n bytes of the wire: the chunk
\* is appended to _buffer, deserialize is called once, and a packet it returns
\* is put on the queue polling_packet_task reads.
ClientOnMessage(n) ==
    /\ peer = "client"
    /\ n \in 1..Len(wire)
    /\ wire' = SubSeq(wire, n + 1, Len(wire))
    /\ LET r == deserialize(recvBuffer \o SubSeq(wire, 1, n))
       IN /\ recvBuffer' = r.buffer
          /\ dispatched' = IF r.packet THEN Append(dispatched, r.message) ELSE dispatched
    /\ UNCHANGED serverVars
    /\ UNCHANGED <<peer, packets>>
    /\ UNCHANGED <<clientVars, workspaceVars>>

\* Chunks of terminal input and output
Chunks == {<<108, 115>>, <<10>>}

\* Terminal sizes (columns, lines) as shutil.get_terminal_size returns them
Sizes == {<<200, 50>>}

\* Packets a client sends as its id-th request
ClientPackets(id) ==
    {RequestData("write-stdin", id, <<<<"buffer", BinV(b)>>>>) : b \in Chunks}
        \cup {RequestData("resize-shell", id, <<<<"size", TupleV(sz)>>>>) : sz \in Sizes}

\* Packets a server handler sends: its id-th request, or the answer to the
\* client's id-th request
ServerPackets(id) ==
    {RequestData("write-stdout", SequenceBase + id, <<<<"buffer", BinV(b)>>>>) : b \in Chunks}
        \cup {RequestData("exit-shell", SequenceBase + id, <<>>),
              ResponseData("write-stdin", id, -1, "Shell not create")}

\* Two packets have been written back to back to the observed peer
InitCodec ==
    /\ ServerInit
    /\ peer \in {"server", "client"}
    /\ \E p \in (IF peer = "server" THEN ClientPackets(1) ELSE ServerPackets(1)),
          q \in (IF peer = "server" THEN ClientPackets(2) ELSE ServerPackets(2)) :
          /\ packets = <<p, q>>
          /\ wire = serialize(p) \o serialize(q)
    /\ recvBuffer = <<>>
    /\ dispatched = <<>>
    /\ ClientInit
    /\ autoReconnect = FALSE
    /\ WorkspaceIdle

\* A peer receiving, in chunks of any sizes, what was written to it
NextCodec ==
    \/ \E h \in Handlers : Connect(h)
    \/ \E n \in 1..Len(wire) : ServerOnMessage(n)
    \/ \E n \in 1..Len(wire) : ClientOnMessage(n)

SpecCodec == InitCodec /\ [][NextCodec]_vars


\* ------------------------------------------------------------------- client
MaxConnections == 2       \* WSTerminalConnection objects the client builds
MaxClientRequests == 3    \* requests the client sends
session_timeout == 10 * 60 * TicksPerSecond   \* WSTerminalClient.session_timeout

\* Commands whose response the client reads (create_shell, resize_shell)
ClientCommands == {"create-shell", "resize-shell"}

\* WSTerminalConnection.send_request up to its await of write_message: the
\* sequence number is drawn and the packet written; write_message raises when
\* the connection is not open.
ClientSendRequest(command) ==
    /\ clientSequence < MaxClientRequests
    /\ Len(requested) < MaxClientRequests
    /\ clientSequence' = clientSequence + 1
    /\ IF clientConn = "open"
       THEN LET r == [id |-> clientSequence + 1, command |-> command, conn |-> connGen]
            IN /\ requested' = Append(requested, r)
               /\ sending' = sending \cup {r}
               /\ unanswered' = unanswered \cup {r}
       ELSE UNCHANGED <<requested, sending, unanswered>>
    /\ UNCHANGED <<autoReconnect, connGen, clientConn, rspMap, reading, returned>>
    /\ UNCHANGED <<serverVars, codecVars, workspaceVars>>

\* write_message is done and send_request returns the request; the caller
\* (create_shell, resize_shell) calls read_response on self._conn, the
\* client's connection at that moment.
ClientSendReturn(r) ==
    /\ r \in sending
    /\ sending' = sending \ {r}
    /\ reading' = reading \cup {[request |-> r, conn |-> connGen]}
    /\ UNCHANGED <<autoReconnect, connGen, clientConn, clientSequence, rspMap,
                   unanswered, requested, returned>>
    /\ UNCHANGED <<serverVars, codecVars, workspaceVars>>

\* write_message raises WebSocketClosedError: the connection closed before the
\* packet was written out.
ClientSendFails(r) ==
    /\ r \in sending
    /\ r.conn # connGen \/ clientConn # "open"
    /\ sending' = sending \ {r}
    /\ UNCHANGED <<autoReconnect, connGen, clientConn, clientSequence, rspMap,
                   reading, unanswered, requested, returned>>
    /\ UNCHANGED <<serverVars, codecVars, workspaceVars>>

\* The server answers a request it received (send_response mirrors command
\* and id) and the client's polling_packet_task hands the response to
\* handle_response, which stores it under its id.
ServerAnswers(r) ==
    /\ r \in unanswered
    /\ r.conn = connGen
    /\ clientConn = "open"
    /\ unanswered' = unanswered \ {r}
    /\ rspMap' = [rspMap EXCEPT ![r.conn] = (r.id :> Response(r, 0, <<"">>, Nil)) @@ @]
    /\ UNCHANGED <<autoReconnect, connGen, clientConn, clientSequence, sending,
                   reading, requested, returned>>
    /\ UNCHANGED <<serverVars, codecVars, workspaceVars>>

\* read_response finds the id of its request in the _rsp_map of the
\* connection it was called on, pops the response and returns it.
ReadResponse(e) ==
    /\ e \in reading
    /\ e.request.id \in DOMAIN rspMap[e.conn]
    /\ reading' = reading \ {e}
    /\ rspMap' = [rspMap EXCEPT ![e.conn] =
                     [i \in DOMAIN @ \ {e.request.id} |-> @[i]]]
    /\ returned' = returned \cup
           {[request |-> e.request, conn |-> e.conn,
             response |-> rspMap[e.conn][e.request.id]]}
    /\ UNCHANGED <<autoReconnect, connGen, clientConn, clientSequence, sending,
                   unanswered, requested>>
    /\ UNCHANGED <<serverVars, codecVars, workspaceVars>>

\* The connection closes: WSTerminalConnection.on_connection_close calls
\* WSTerminalClient.on_connection_close, which under auto-reconnect builds a
\* new WSTerminalConnection (sequence 0, empty response table) and otherwise
\* ends the client (on_shell_exit, which schedules exit_loop).
ClientConnectionClose ==
    /\ clientConn = "open"
    /\ autoReconnect => connGen < MaxConnections
    /\ unanswered' = {}
    /\ running' = FALSE
    /\ IF autoReconnect
       THEN /\ connGen' = connGen + 1
            /\ clientConn' = "connecting"
            /\ clientSequence' = 0
            /\ rspMap' = Append(rspMap, <<>>)
            /\ UNCHANGED autoReconnect
       ELSE /\ clientConn' = "closed"
            /\ autoReconnect' = FALSE
            /\ UNCHANGED <<connGen, clientSequence, rspMap>>
    /\ term' = [term EXCEPT !.exiting = @ \/ ~autoReconnect]
    /\ UNCHANGED <<sending, reading, requested, returned>>
    /\ UNCHANGED <<serverVars, codecVars, inbox, bound, remoteFs, handled, localFs,
                   localExec, phase, todo, events, writing, ops, token, auth, ino, kev, pump,
                   dirty>>

\* The new connection is established (headers_received, code 101) and
\* connect() is called for it: _running is set and wait_for_connecting starts
\* its polling_packet_task.
ClientConnected ==
    /\ clientConn = "connecting"
    /\ clientConn' = "open"
    /\ running' = TRUE
    /\ UNCHANGED <<autoReconnect, connGen, clientSequence, rspMap, sending, reading,
                   unanswered, requested, returned>>
    /\ UNCHANGED <<serverVars, codecVars, inbox, bound, remoteFs, handled, localFs,
                   localExec, phase, todo, events, writing, ops, auxVars, pump, dirty>>

\* connect_server calls create_shell: the request carries a timeout under
\* auto-reconnect and the stored session id if there is one; send_request
\* raises when the connection is not open.
ClientCreateShell ==
    /\ term.at = "start"
    /\ ~term.stopped
    /\ clientSequence' = clientSequence + 1
    /\ IF clientConn = "open"
       THEN /\ term' = [term EXCEPT
                   !.at = "creating",
                   !.sent = Append(@, [conn |-> connGen, session |-> term.session,
                                       timeout |-> IF autoReconnect
                                                   THEN session_timeout ELSE Nil])]
            /\ requested' = Append(requested, [id |-> clientSequence + 1,
                                    command |-> "create-shell", conn |-> connGen])
       ELSE /\ term' = [term EXCEPT !.at = "raised"]
            /\ UNCHANGED requested
    /\ UNCHANGED <<autoReconnect, connGen, clientConn, rspMap, sending, reading,
                   unanswered, returned>>
    /\ UNCHANGED <<serverVars, codecVars, inbox, bound, remoteFs, handled, localFs,
                   localExec, phase, todo, events, writing, ops, token, auth, ino, kev, pumpVars>>

\* read_response returns the answer to create-shell: a code other than 0
\* raises; else the session id is stored under auto-reconnect if none is, and
\* create_shell enters its loop.
ClientShellCreated(code, sid) ==
    /\ term.at = "creating"
    /\ ~term.stopped
    /\ clientConn = "open"
    /\ term.sent[Len(term.sent)].conn = connGen
    /\ term' = IF code # 0
               THEN [term EXCEPT !.at = "raised"]
               ELSE [term EXCEPT !.at = "loop",
                                 !.session = IF @ = Nil /\ autoReconnect THEN sid ELSE @]
    /\ UNCHANGED <<serverVars, codecVars, clientVars, inbox, bound, remoteFs, handled,
                   localFs, localExec, phase, todo, events, writing, ops, token, auth, ino, kev,
                   pumpVars>>

\* The loop of create_shell finds _running false: create_shell returns, and
\* connect_server with it.
ClientShellLoopLeft ==
    /\ term.at = "loop"
    /\ ~term.stopped
    /\ ~running
    /\ term' = [term EXCEPT !.at = "left"]
    /\ UNCHANGED <<serverVars, codecVars, clientVars, inbox, bound, remoteFs, handled,
                   localFs, localExec, phase, todo, events, writing, ops, token, auth, ino, kev,
                   pumpVars>>

\* exit_loop, scheduled by on_shell_exit: after 0.1 s the event loop is stopped
ExitLoop ==
    /\ term.exiting
    /\ ~term.stopped
    /\ term' = [term EXCEPT !.stopped = TRUE]
    /\ UNCHANGED <<serverVars, codecVars, clientVars, inbox, bound, remoteFs, handled,
                   localFs, localExec, phase, todo, events, writing, ops, token, auth, ino, kev,
                   pumpVars>>

\* A client, with or without auto-reconnect, connected, about to create its shell
InitTerminal ==
    /\ ServerInit
    /\ CodecIdle
    /\ ClientInit
    /\ autoReconnect \in BOOLEAN
    /\ WorkspaceIdle

NextTerminal ==
    \/ ClientCreateShell
    \/ \E code \in {0, -1}, sid \in SessionIds : ClientShellCreated(code, sid)
    \/ ClientShellLoopLeft
    \/ ExitLoop
    \/ ClientConnectionClose
    \/ ClientConnected
    \/ Tick

\* Every step of the client that can be taken is taken in the end
SpecTerminal == InitTerminal /\ [][NextTerminal]_vars /\ WF_vars(NextTerminal)

\* A client, with or without auto-reconnect, connected to a server
InitClient ==
    /\ ServerInit
    /\ CodecIdle
    /\ ClientInit
    /\ autoReconnect \in BOOLEAN
    /\ WorkspaceIdle

NextClient ==
    \/ \E c \in ClientCommands : ClientSendRequest(c)
    \/ \E r \in sending : ClientSendReturn(r)
    \/ \E r \in sending : ClientSendFails(r)
    \/ \E r \in unanswered : ServerAnswers(r)
    \/ \E e \in reading : ReadResponse(e)
    \/ ClientConnectionClose
    \/ ClientConnected

SpecClient == InitClient /\ [][NextClient]_vars

\* ---------------------------------------------------------------- workspace
MaxDispatch == 3          \* requests written to the server handler

\* File contents
Contents == {<<1>>, <<2>>}

\* hashlib.md5(data).hexdigest()
Md5(data) ==
    CASE data = <<>> -> "d41d8cd98f00b204e9800998ecf8427e"
      [] data = <<1>> -> "55a54008ad1ba589aa210d2629c1df41"
      [] data = <<2>> -> "9e688c58a5487b8eaf69c9e1005ad0bf"
      [] data = <<1, 2>> -> "0cb988d042a7f28dd5fe2b55b3f5ac7a"
      [] data = <<1, 2, 3>> -> "5289df737df57326fcdd22597afb1fac"
      [] data = <<1, 2, 3, 4>> -> "08d6c05a21512a79a1dfeb9d2a8f262f"
      [] data = <<1, 2, 3, 4, 5>> -> "7cfdd07889b3295d6a550914ab35e068"
      [] data = <<1, 2, 3, 4, 5, 6>> -> "6ac1e56bc78f031059be7be854522c4c"
      [] data = <<1, 2, 3, 4, 5, 6, 7>> -> "498001217bc632cb158588224d7d23c4"

\* A wire path ("/"-separated) and the path it names: path.replace("/",
\* os.path.sep) and os.path.join
PathOf(s) ==
    CASE s = "a" -> <<"a">>
      [] s = "b" -> <<"b">>
      [] s = "a/f" -> <<"a", "f">>
      [] s = "b/f" -> <<"b", "f">>
      [] s = "c.pyc" -> Compiled

PathText(p) == CHOOSE s \in {"a", "b", "a/f", "b/f", "c.pyc"} : PathOf(s) = p

\* os.path.dirname
Parent(p) == SubSeq(p, 1, Len(p) - 1)

\* os.path.isdir, os.path.isfile, os.path.exists (<<>> is the root)
IsDir(fs, p) == p = <<>> \/ (p \in Paths /\ fs[p].kind = "dir")
IsFile(fs, p) == p \in Paths /\ fs[p].kind = "file"
Exists(fs, p) == IsDir(fs, p) \/ IsFile(fs, p)

\* q is p or lies under p
Under(q, p) == Len(q) >= Len(p) /\ SubSeq(q, 1, Len(p)) = p

\* The result of a file-system call: the tree it leaves, and the name of the
\* exception it raises ("" when it returns)
Done(fs) == [fs |-> fs, error |-> ""]
Raise(fs, error) == [fs |-> fs, error |-> error]

\* os.makedirs(p)
MakeDirs(fs, p) ==
    IF Exists(fs, p) THEN Raise(fs, "FileExistsError")
    ELSE IF \E q \in Paths : Under(p, q) /\ q # p /\ IsFile(fs, q)
    THEN Raise(fs, "NotADirectoryError")
    ELSE Done([q \in Paths |-> IF Under(p, q) THEN Dir ELSE fs[q]])

\* Workspace.create_directory
create_directory(fs, p) == IF IsDir(fs, p) THEN Done(fs) ELSE MakeDirs(fs, p)

\* Workspace.remove_directory: shutil.rmtree
remove_directory(fs, p) ==
    IF IsDir(fs, p)
    THEN Done([q \in Paths |-> IF Under(q, p) THEN Absent ELSE fs[q]])
    ELSE Done(fs)

\* Workspace.write_file: the missing parent directories are made, then the
\* file is opened "wb" or "ab" and written
write_file(fs, p, data, overwrite) ==
    LET made == IF IsDir(fs, Parent(p)) THEN Done(fs) ELSE MakeDirs(fs, Parent(p))
    IN IF made.error # "" THEN made
       ELSE IF IsDir(made.fs, p) THEN Raise(made.fs, "IsADirectoryError")
       ELSE Done([made.fs EXCEPT ![p] =
                     File(IF overwrite THEN data ELSE made.fs[p].data \o data)])

\* Workspace.remove_file
remove_file(fs, p) ==
    IF IsFile(fs, p) THEN Done([fs EXCEPT ![p] = Absent]) ELSE Done(fs)

\* os.rename(src, dst) of an existing src
Rename(fs, src, dst) ==
    IF src = dst THEN Done(fs)
    ELSE IF ~IsDir(fs, Parent(dst))
    THEN Raise(fs, IF Exists(fs, Parent(dst)) THEN "NotADirectoryError"
                   ELSE "FileNotFoundError")
    ELSE IF IsFile(fs, src)
    THEN IF IsDir(fs, dst) THEN Raise(fs, "IsADirectoryError")
         ELSE Done([fs EXCEPT ![dst] = fs[src], ![src] = Absent])
    ELSE IF Under(dst, src) THEN Raise(fs, "OSError")
    ELSE IF IsFile(fs, dst) THEN Raise(fs, "NotADirectoryError")
    ELSE IF \E q \in Paths : Under(q, dst) /\ q # dst /\ fs[q].kind # "none"
    THEN Raise(fs, "OSError")
    ELSE Done([q \in Paths |->
                 IF Under(q, dst) THEN fs[src \o SubSeq(q, Len(dst) + 1, Len(q))]
                 ELSE IF Under(q, src) THEN Absent
                 ELSE fs[q]])

\* Workspace.move_item
move_item(fs, src, dst) == IF Exists(fs, src) THEN Rename(fs, src, dst) ELSE Done(fs)

\* The names a directory at this path can hold
Children(root) ==
    IF root = <<>> THEN Names \o Compiled
    ELSE IF Len(root) = 1 /\ root # Compiled THEN Inner ELSE <<>>

\* Workspace.path_should_ignored with the rules _build_ignore_rules makes of
\* ".git/", ".env2/", ".env3/" and "*.pyc" (no link, no .gitignore)
path_should_ignored(path) == \E i \in 1..Len(path) : <<path[i]>> = Compiled

\* Workspace.snapshot: {"dirs": {name: snapshot}, "files": {name: hash}}
\* without the paths that path_should_ignored matches
RECURSIVE snapshot(_, _)
RECURSIVE SnapshotDirs(_, _, _)
RECURSIVE SnapshotFiles(_, _, _)
SnapshotDirs(fs, root, names) ==
    IF names = <<>> THEN <<>>
    ELSE (IF /\ IsDir(fs, Append(root, Head(names)))
             /\ ~path_should_ignored(Append(root, Head(names)))
          THEN <<<<Head(names), MapV(snapshot(fs, Append(root, Head(names))))>>>>
          ELSE <<>>) \o SnapshotDirs(fs, root, Tail(names))

SnapshotFiles(fs, root, names) ==
    IF names = <<>> THEN <<>>
    ELSE (IF /\ IsFile(fs, Append(root, Head(names)))
             /\ ~path_should_ignored(Append(root, Head(names)))
          THEN <<<<Head(names), StrV(Md5(fs[Append(root, Head(names))].data))>>>>
          ELSE <<>>) \o SnapshotFiles(fs, root, Tail(names))

snapshot(fs, root) ==
    <<<<"dirs", MapV(SnapshotDirs(fs, root, Children(root)))>>,
      <<"files", MapV(SnapshotFiles(fs, root, Children(root)))>>>>

\* key in dict
Has(m, key) == \E i \in 1..Len(m) : m[i][1] = key

\* What handle_request does with a request on a handler without a shell: the
\* workspace binding and the tree it leaves, the exception it raises ("" when
\* it returns) and the responses it has written.  A lookup of a missing field
\* raises KeyError.  No branch takes a command outside the chain.
handle_request(isBound, fs, request) ==
    LET command == Get(request, "command").s
        id == Get(request, "id").n
        Result(b, f, e, r) == [bound |-> b, fs |-> f, error |-> e, replies |-> r]
        Missing(keys) == \E k \in keys : ~Has(request, k)
        KeyError == Result(isBound, fs, "KeyError", <<>>)
        Silent(r) == Result(isBound, r.fs, r.error, <<>>)
        path == PathOf(Get(request, "path").s)
        NotCreated == Result(isBound, fs, "",
                         <<ResponseData(command, id, -1, "Shell not create")>>)
    IN CASE command = "sync-workspace" ->
                IF Missing({"workspace"}) THEN KeyError
                ELSE Result(TRUE, fs, "",
                        <<ResponseData(command, id, 0, "")
                            \o <<<<"data", MapV(snapshot(fs, <<>>))>>>>>>)
         [] isBound /\ command = "write-file" ->
                IF Missing({"path", "data", "overwrite"}) THEN KeyError
                ELSE Silent(write_file(fs, path, Get(request, "data").b,
                                       Get(request, "overwrite").n = 1))
         [] isBound /\ command = "remove-file" ->
                IF Missing({"path"}) THEN KeyError ELSE Silent(remove_file(fs, path))
         [] isBound /\ command = "create-dir" ->
                IF Missing({"path"}) THEN KeyError ELSE Silent(create_directory(fs, path))
         [] isBound /\ command = "remove-dir" ->
                IF Missing({"path"}) THEN KeyError ELSE Silent(remove_directory(fs, path))
         [] isBound /\ command = "move-item" ->
                IF Missing({"src_path", "dst_path"}) THEN KeyError
                ELSE Silent(move_item(fs, PathOf(Get(request, "src_path").s),
                                      PathOf(Get(request, "dst_path").s)))
         [] command = "write-stdin" -> NotCreated
         [] command = "resize-shell" -> NotCreated
         [] OTHER -> Result(isBound, fs, "", <<>>)

\* on_message letting an exception of handle_request escape: nothing is
\* written and the connection's receive loop ends
on_message_uncaught(isBound, fs, request) ==
    LET r == handle_request(isBound, fs, request)
    IN [bound |-> r.bound, fs |-> r.fs, error |-> r.error, replies |-> r.replies,
        escaped |-> r.error # ""]

\* on_message after deserialize returned a packet: handle_request, and on an
\* exception send_response(packet.message, -1, str(ex))
on_message(isBound, fs, request) ==
    LET r == handle_request(isBound, fs, request)
    IN [bound |-> r.bound, fs |-> r.fs, error |-> r.error,
        replies |-> IF r.error = "" THEN r.replies
                    ELSE r.replies \o
                         <<ResponseData(Get(request, "command").s,
                                        Get(request, "id").n, -1, r.error)>>,
        escaped |-> FALSE]

\* The server handler receives the next websocket message: it is appended
\* to _buffer, deserialize is called once, and a packet it returns is handled.
ServerReceive ==
    /\ conn[Receiver] = "open"
    /\ inbox # <<>>
    /\ inbox' = Tail(inbox)
    /\ LET r == deserialize(recvBuffer \o Head(inbox))
       IN /\ recvBuffer' = r.buffer
          /\ IF r.packet
             THEN LET e == on_message(bound, remoteFs, r.message)
                  IN /\ bound' = e.bound
                     /\ remoteFs' = e.fs
                     /\ handled' = Append(handled,
                            [request |-> r.message, error |-> e.error,
                             replies |-> e.replies])
                     /\ conn' = IF e.escaped THEN [conn EXCEPT ![Receiver] = "closed"]
                                ELSE conn
             ELSE UNCHANGED <<bound, remoteFs, handled, conn>>
    /\ UNCHANGED <<now, reaperWake, sessions, sessionSeq, shells, hshell, hsession,
                   req, poll, spawn, floop, fshell, fres, sent, sequence, mark>>
    /\ UNCHANGED <<peer, packets, wire, dispatched>>
    /\ UNCHANGED <<clientVars, mirrorVars>>

\* Requests a client writes as its id-th request
DispatchRequests(id) ==
    {RequestData("list-dir", id, <<<<"path", StrV("a")>>>>),
     RequestData("sync-workspace", id, <<<<"workspace", StrV("ws")>>>>),
     RequestData("sync-workspace", id, <<>>),
     RequestData("create-dir", id, <<<<"path", StrV("a")>>>>),
     RequestData("remove-file", id, <<<<"path", StrV("a")>>>>),
     RequestData("write-stdin", id, <<<<"buffer", BinV(<<10>>)>>>>)}
      \cup {RequestData("write-file", id,
               <<<<"path", StrV(s)>>, <<"data", BinV(<<1>>)>>,
                 <<"overwrite", BoolV(TRUE)>>>>) : s \in {"a", "a/f"}}

\* The client's send_request writes one packet as one websocket message
ClientWrite(message) ==
    /\ Len(inbox) + Len(handled) < MaxDispatch
    /\ inbox' = Append(inbox, serialize(message))
    /\ UNCHANGED <<bound, remoteFs, handled, mirrorVars>>
    /\ UNCHANGED <<serverVars, codecVars, clientVars>>

\* A connected handler whose workspace directory is empty, holds a file "a"
\* or holds a directory "a"
InitDispatch ==
    /\ ServerInit
    /\ CodecIdle
    /\ ClientInit
    /\ autoReconnect = FALSE
    /\ inbox = <<>>
    /\ bound = FALSE
    /\ handled = <<>>
    /\ remoteFs \in {EmptyFs, [EmptyFs EXCEPT ![<<"a">>] = File(<<2>>)],
                     [EmptyFs EXCEPT ![<<"a">>] = Dir]}
    /\ MirrorIdle
    /\ AuxIdle

NextDispatch ==
    \/ \E h \in Handlers : Connect(h)
    \/ \E m \in DispatchRequests(Len(inbox) + Len(handled) + 1) : ClientWrite(m)
    \/ ServerReceive

SpecDispatch == InitDispatch /\ [][NextDispatch]_vars

\* ------------------------------------------------------------ authorization
\* Texts as sequences of characters
TokenSpace == <<"T", "o", "k", "e", "n", " ">>

\* Tokens the server is started with: none, a word, two words
Tokens == {NoText, <<"t">>, <<"a", " ", "b">>}

\* Authorization headers of upgrade requests (no header reads as ""):
\* "Token t", "Token x", "Token x t", "Token  t", "Token a b", "token t",
\* "Tokent", "t"
Headers ==
    {NoText,
     TokenSpace \o <<"t">>,
     TokenSpace \o <<"x">>,
     TokenSpace \o <<"x", " ", "t">>,
     TokenSpace \o <<" ", "t">>,
     TokenSpace \o <<"a", " ", "b">>,
     <<"t", "o", "k", "e", "n", " ", "t">>,
     <<"T", "o", "k", "e", "n", "t">>,
     <<"t">>}

\* str.startswith
StartsWith(s, prefix) == Len(s) >= Len(prefix) /\ SubSeq(s, 1, Len(prefix)) = prefix

\* str.split()[-1]: the last run of characters that are not whitespace
RECURSIVE LastWord(_)
LastWord(s) ==
    IF s = <<>> THEN <<>>
    ELSE IF s[Len(s)] = " " THEN LastWord(SubSeq(s, 1, Len(s) - 1))
    ELSE IF \E i \in 1..Len(s) : s[i] = " "
    THEN LET space == CHOOSE i \in 1..Len(s) :
                         s[i] = " " /\ \A j \in (i + 1)..Len(s) : s[j] # " "
         IN SubSeq(s, space + 1, Len(s))
    ELSE s

\* WSTerminalServerHandler.check_permission
check_permission(tok, header) ==
    IF tok # NoText
    THEN IF StartsWith(header, TokenSpace) THEN LastWord(header) = tok ELSE FALSE
    ELSE TRUE

\* WebSocketProtocol.accept_connection on a new handler: the upgrade is
\* accepted, or answered 403 and the request finished
Upgrade(h, header) ==
    /\ Quiet
    /\ conn[h] = "new"
    /\ \A g \in 1..(h - 1) : conn[g] # "new"
    /\ auth' = [auth EXCEPT ![h] = header]
    /\ conn' = [conn EXCEPT ![h] = IF check_permission(token, header) THEN "open"
                                   ELSE "refused"]
    /\ UNCHANGED <<now, reaperWake, sessions, sessionSeq, shells, hshell, hsession,
                   req, poll, spawn, floop, fshell, fres, sent, sequence, mark>>
    /\ UNCHANGED <<codecVars, clientVars, inbox, bound, remoteFs, handled, localFs,
                   localExec, phase, todo, events, writing, ops, token, term, ino, kev,
                   pumpVars>>

\* A server started with or without a token
InitAuth ==
    /\ ServerInit
    /\ CodecIdle
    /\ ClientInit
    /\ autoReconnect = FALSE
    /\ inbox = <<>>
    /\ bound = FALSE
    /\ remoteFs = EmptyFs
    /\ handled = <<>>
    /\ MirrorIdle
    /\ token \in Tokens
    /\ auth = [h \in Handlers |-> NoText]
    /\ term = TermIdle
    /\ ino = NoWatcher
    /\ kev = NoWatcher

NextAuth ==
    \/ \E h \in Handlers, header \in Headers : Upgrade(h, header)
    \/ ClientWrite(RequestData("sync-workspace", Len(inbox) + Len(handled) + 1,
                               <<<<"workspace", StrV("ws")>>>>))
    \/ ServerReceive

SpecAuth == InitAuth /\ [][NextAuth]_vars

\* ------------------------------------------------------------ reconciliation
\* bool(value) of a dict, a string or None
Truthy(v) == (v.t = "map" /\ v.b # <<>>) \/ (v.t = "str" /\ v.s # "")

RECURSIVE Flatten(_)
Flatten(parts) == IF parts = <<>> THEN <<>> ELSE Head(parts) \o Flatten(Tail(parts))

\* the second loop of diff leaving the keys of data2 alone
RemovedNone(data1, data2) == <<>>

\* utils.diff, its second loop: a key of data2 that data1 lacks is marked "-"
Removed(data1, data2) ==
    Flatten([i \in 1..Len(data2) |->
        IF Has(data1, data2[i][1]) THEN <<>> ELSE <<<<data2[i][1], StrV("-")>>>>])

RECURSIVE diff(_, _)
\* diff keeping the keys whose value is the same on both sides
diffUnpruned(data1, data2) ==
    Flatten([i \in 1..Len(data1) |->
        LET key == data1[i][1]
            v1 == data1[i][2]
        IN IF ~Has(data2, key) THEN <<<<key, v1>>>>
           ELSE IF v1.t = "map" /\ Get(data2, key).t = "map"
           THEN <<<<key, MapV(diff(v1.b, Get(data2, key).b))>>>>
           ELSE <<<<key, v1>>>>])
        \o Removed(data1, data2)

\* utils.diff on two dicts given as the sequences of their items
diff(data1, data2) ==
    Flatten([i \in 1..Len(data1) |->
        LET key == data1[i][1]
            v1 == data1[i][2]
        IN IF ~Has(data2, key) THEN <<<<key, v1>>>>
           ELSE LET v2 == Get(data2, key)
                    res == IF v1.t = "map" /\ v2.t = "map" THEN MapV(diff(v1.b, v2.b))
                           ELSE IF v1 # v2 THEN v1
                           ELSE [t |-> "none", n |-> 0, s |-> "", b |-> <<>>]
                IN IF Truthy(res) THEN <<<<key, res>>>> ELSE <<>>])
        \o Removed(data1, data2)

\* What a client coroutine has written when it ends: the requests (command
\* and fields), and the name of the exception that ended it ("" when it
\* returned)
Wrote(requests) == [requests |-> requests, error |-> ""]
Raised(error) == [requests |-> <<>>, error |-> error]

\* b begun before the last request of a is written
ThenEarly(a, b) ==
    IF a.error # "" THEN a
    ELSE IF a.requests = <<>> THEN b
    ELSE [requests |-> SubSeq(a.requests, 1, Len(a.requests) - 1) \o b.requests
                          \o <<a.requests[Len(a.requests)]>>,
          error |-> b.error]

\* a; b: b runs only when a has returned
Then(a, b) ==
    IF a.error # "" THEN a
    ELSE [requests |-> a.requests \o b.requests, error |-> b.error]

FragmentSize == 2         \* WSTerminalClient.file_fragment_size, in bytes
MaxFileLen == 5           \* length of the longest file written

RECURSIVE WriteFileLoop(_, _)
RECURSIVE WriteFileLoopOverwrites(_, _)
\* the loop of write_file with every fragment sent as an overwrite
WriteFileLoopOverwrites(content, offset) ==
    LET data == SubSeq(content, offset + 1, Min({offset + FragmentSize, Len(content)}))
    IN IF data = <<>> /\ offset # 0 THEN <<>>
       ELSE <<[data |-> data, overwrite |-> TRUE]>>
                \o (IF data = <<>> THEN <<>>
                    ELSE WriteFileLoopOverwrites(content, offset + Len(data)))

\* WSTerminalClient.write_file, its loop from this offset of the open file:
\* the data and the overwrite flag of the write-file requests it sends
WriteFileLoop(content, offset) ==
    LET data == SubSeq(content, offset + 1, Min({offset + FragmentSize, Len(content)}))
    IN IF data = <<>> /\ offset # 0 THEN <<>>
       ELSE <<[data |-> data, overwrite |-> offset = 0]>>
                \o (IF data = <<>> THEN <<>>
                    ELSE WriteFileLoop(content, offset + Len(data)))

\* WSTerminalClient.write_file, then set_perm, whose
\* proto.EnumCommand.SET_PERM is not defined
WriteFileSetPerm(fs, exec, path) ==
    Then(IF IsFile(fs, path)
         THEN Wrote([i \in 1..Len(WriteFileLoop(fs[path].data, 0)) |->
                       [command |-> "write-file",
                        kwargs |-> <<<<"path", StrV(PathText(path))>>,
                                     <<"data", BinV(WriteFileLoop(fs[path].data, 0)[i].data)>>,
                                     <<"overwrite",
                                       BoolV(WriteFileLoop(fs[path].data, 0)[i].overwrite)>>>>]])
         ELSE Wrote(<<>>),
         IF ~Exists(fs, path) THEN Raised("FileNotFoundError")
         ELSE IF path \in exec THEN Raised("AttributeError")
         ELSE Wrote(<<>>))

PathRequest(command, path) ==
    Wrote(<<[command |-> command, kwargs |-> <<<<"path", StrV(PathText(path))>>>>]>>)

\* WSTerminalClient.update_workspace: the directories of the tree, then its
\* files
RECURSIVE update_workspace(_, _, _, _)
RECURSIVE UpdateDirs(_, _, _, _)
RECURSIVE UpdateFiles(_, _, _, _)
UpdateDirs(fs, exec, dirs, root) ==
    IF dirs = <<>> THEN Wrote(<<>>)
    ELSE LET path == Append(root, dirs[1][1])
             payload == dirs[1][2]
         IN Then(IF ~Truthy(payload) THEN PathRequest("create-dir", path)
                 ELSE IF payload.t = "str" /\ payload.s = "-"
                 THEN PathRequest("remove-dir", path)
                 ELSE IF payload.t = "map"
                 THEN update_workspace(fs, exec, payload.b, path)
                 ELSE Raised("AssertionError"),
                 UpdateDirs(fs, exec, Tail(dirs), root))

UpdateFiles(fs, exec, files, root) ==
    IF files = <<>> THEN Wrote(<<>>)
    ELSE LET path == Append(root, files[1][1])
             payload == files[1][2]
         IN Then(IF payload.t = "str" /\ payload.s = "-"
                 THEN PathRequest("remove-file", path)
                 ELSE WriteFileSetPerm(fs, exec, path),
                 UpdateFiles(fs, exec, Tail(files), root))

update_workspace(fs, exec, dir_tree, root) ==
    IF ~(Has(dir_tree, "dirs") \/ Has(dir_tree, "files")) THEN Raised("AssertionError")
    ELSE Then(UpdateDirs(fs, exec,
                         IF Has(dir_tree, "dirs") THEN Get(dir_tree, "dirs").b ELSE <<>>,
                         root),
              UpdateFiles(fs, exec,
                          IF Has(dir_tree, "files") THEN Get(dir_tree, "files").b ELSE <<>>,
                          root))

\* The id of the next request written on the connection
NextId == Len(inbox) + Len(handled) + 1

\* sync_workspace, from its send_request on (the client's Workspace is built:
\* the call Workspace(workspace_path, ignore_paths) passes an argument the
\* constructor does not take)
SyncRequest ==
    /\ phase = "idle"
    /\ phase' = "requested"
    /\ inbox' = Append(inbox, serialize(RequestData("sync-workspace", NextId,
                                            <<<<"workspace", StrV("ws")>>>>)))
    /\ UNCHANGED <<bound, remoteFs, handled, localFs, localExec, todo, events, writing,
                   ops>>
    /\ UNCHANGED <<serverVars, codecVars, clientVars, auxVars, pumpVars>>

\* sync_workspace once read_response returns: make_diff of the snapshot in
\* the response, and update_workspace when the diff is not empty.  The
\* requests update_workspace writes are those of todo, in order.
UpdateWorkspace ==
    /\ phase = "requested"
    /\ handled # <<>>
    /\ LET data == Get(handled[1].replies[1], "data").b
           diff_result == diff(snapshot(localFs, <<>>), data)
           u == IF diff_result # <<>>
                THEN update_workspace(localFs, localExec, diff_result, <<>>)
                ELSE Wrote(<<>>)
       IN /\ todo' = u.requests
          /\ phase' = IF u.error = "" THEN "watching" ELSE "raised"
    /\ UNCHANGED <<inbox, bound, remoteFs, handled, localFs, localExec, events, writing,
                   ops>>
    /\ UNCHANGED <<serverVars, codecVars, clientVars, auxVars, pumpVars>>

\* send_request of the next request of update_workspace
SendNext ==
    /\ todo # <<>>
    /\ todo' = Tail(todo)
    /\ inbox' = Append(inbox, serialize(RequestData(todo[1].command, NextId,
                                                    todo[1].kwargs)))
    /\ UNCHANGED <<bound, remoteFs, handled, localFs, localExec, phase, events, writing,
                   ops>>
    /\ UNCHANGED <<serverVars, codecVars, clientVars, auxVars, pumpVars>>

\* Directory trees: a name is absent, a file, or a directory that is empty or
\* holds a file; nothing that an ignore rule matches
Trees ==
    {fs \in [Paths -> {Absent, Dir} \cup {File(c) : c \in Contents}] :
        /\ fs[Compiled] = Absent
        /\ \A p \in Paths :
              Len(p) > 1 => /\ fs[p].kind # "dir"
                            /\ fs[p].kind = "file" => fs[Parent(p)].kind = "dir"}

\* A connected client with a workspace and a server whose directory for it
\* holds anything
InitReconcile ==
    /\ ServerInit
    /\ CodecIdle
    /\ ClientInit
    /\ autoReconnect = FALSE
    /\ inbox = <<>>
    /\ bound = FALSE
    /\ handled = <<>>
    /\ remoteFs \in Trees
    /\ localFs \in Trees
    /\ localExec \in {{}} \cup {{p} : p \in {q \in Paths : localFs[q].kind = "file"}}
    /\ phase = "idle"
    /\ todo = <<>>
    /\ events = <<>>
    /\ writing = <<>>
    /\ ops = 0
    /\ PumpIdle
    /\ AuxIdle

NextReconcile ==
    \/ Connect(Receiver)
    \/ SyncRequest
    \/ ServerReceive
    \/ UpdateWorkspace
    \/ SendNext

SpecReconcile == InitReconcile /\ [][NextReconcile]_vars

\* A client whose workspace holds one file "a" of any length, and a server
\* whose workspace holds no "a", a shorter one or a longer one
InitFragments ==
    /\ ServerInit
    /\ CodecIdle
    /\ ClientInit
    /\ autoReconnect = FALSE
    /\ inbox = <<>>
    /\ bound = FALSE
    /\ handled = <<>>
    /\ remoteFs \in {[EmptyFs EXCEPT ![<<"a">>] = x] :
                       x \in {Absent, File(<<2>>), File([i \in 1..(MaxFileLen + 1) |-> i])}}
    /\ localFs \in {[EmptyFs EXCEPT ![<<"a">>] = File([i \in 1..n |-> i])] :
                      n \in 0..MaxFileLen}
    /\ localExec = {}
    /\ phase = "idle"
    /\ todo = <<>>
    /\ events = <<>>
    /\ writing = <<>>
    /\ ops = 0
    /\ PumpIdle
    /\ AuxIdle

SpecFragments == InitFragments /\ [][NextReconcile]_vars

\* A client whose workspace holds two files of more than one fragment each,
\* and a server that has none of them or other ones
InitStreams ==
    /\ ServerInit
    /\ CodecIdle
    /\ ClientInit
    /\ autoReconnect = FALSE
    /\ inbox = <<>>
    /\ bound = FALSE
    /\ handled = <<>>
    /\ remoteFs \in {[EmptyFs EXCEPT ![<<"a">>] = x, ![<<"b">>] = y] :
                       x \in {Absent, File(<<2>>)}, y \in {Absent, File(<<2>>), Dir}}
    /\ localFs \in {[EmptyFs EXCEPT ![<<"a">>] = File([i \in 1..n |-> i]),
                                   ![<<"b">>] = File([i \in 1..m |-> i])] :
                      n \in (FragmentSize + 1)..MaxFileLen,
                      m \in (FragmentSize + 1)..MaxFileLen}
    /\ localExec = {}
    /\ phase = "idle"
    /\ todo = <<>>
    /\ events = <<>>
    /\ writing = <<>>
    /\ ops = 0
    /\ PumpIdle
    /\ AuxIdle

SpecStreams == InitStreams /\ [][NextReconcile]_vars

\* ----------------------------------------------------------------- watching
MaxLocalOps == 2          \* operations of the user on the local workspace

\* What the user can do to a tree, and the events INotifyWatcher.read_event
\* returns for it: mkdir and rmdir of an empty directory, the creation of a
\* file (IN_CREATE, and IN_MODIFY when something is written to it), a write
\* to a file, unlink, and the rename of a file.
LocalOperations(fs, paths) ==
    LET Event(event, path) == [event |-> event, path |-> path, dst_path |-> <<>>]
        Result(tree, evs) == [fs |-> tree, events |-> evs]
    IN {Result([fs EXCEPT ![p] = Dir], <<Event("DIRECTORY_CREATED", p)>>) :
            p \in {q \in paths : Len(q) = 1 /\ ~Exists(fs, q)}}
       \cup {Result([fs EXCEPT ![p] = Absent], <<Event("DIRECTORY_REMOVED", p)>>) :
            p \in {q \in paths : IsDir(fs, q) /\ remove_directory(fs, q).fs
                                                   = [fs EXCEPT ![q] = Absent]}}
       \cup {Result([fs EXCEPT ![p] = File(<<>>)], <<Event("FILE_CREATED", p)>>) :
            p \in {q \in paths : ~Exists(fs, q) /\ IsDir(fs, Parent(q))}}
       \cup {Result([fs EXCEPT ![x[1]] = File(x[2])],
                    <<Event("FILE_CREATED", x[1]), Event("FILE_MODIFIED", x[1])>>) :
            x \in {q \in paths : ~Exists(fs, q) /\ IsDir(fs, Parent(q))} \X Contents}
       \cup {Result([fs EXCEPT ![x[1]] = File(x[2])], <<Event("FILE_MODIFIED", x[1])>>) :
            x \in {y \in {q \in paths : IsFile(fs, q)} \X Contents : fs[y[1]].data # y[2]}}
       \cup {Result([fs EXCEPT ![p] = Absent], <<Event("FILE_REMOVED", p)>>) :
            p \in {q \in paths : IsFile(fs, q)}}
       \cup {Result(Rename(fs, x[1], x[2]).fs,
                    <<[event |-> "ITEM_MOVED", path |-> x[1], dst_path |-> x[2]]>>) :
            x \in {y \in paths \X paths :
                     /\ IsFile(fs, y[1])
                     /\ y[1] # y[2]
                     /\ Rename(fs, y[1], y[2]).error = ""}}

\* The user changes the local workspace at these paths while the client
\* watches it
LocalOperation(paths) ==
    /\ phase = "watching"
    /\ todo = <<>>
    /\ ops < MaxLocalOps
    /\ ops' = ops + 1
    /\ \E r \in LocalOperations(localFs, paths) :
          /\ localFs' = r.fs
          /\ events' = events \o r.events
    /\ UNCHANGED <<inbox, bound, remoteFs, handled, localExec, phase, todo, writing>>
    /\ UNCHANGED <<serverVars, codecVars, clientVars, auxVars, pumpVars>>

\* dict.pop(key)
Without(d, key) == [k \in DOMAIN d \ {key} |-> d[k]]

\* delay_write_file setting the time again for a path that has one
delay_write_file_again(files, path, t) == (path :> t + HalfSecond) @@ Without(files, path)

\* WSTerminalClient.delay_write_file(path, 0.5) at time t
delay_write_file(files, path, t) ==
    IF path \in DOMAIN files THEN files ELSE (path :> t + HalfSecond) @@ files

\* AIOWatcher.start takes the next event, Workspace.on_event passes it to
\* the client's callback: on_directory_created, on_directory_removed,
\* on_file_created, on_file_modified (delay_write_file), on_file_removed,
\* on_item_moved.
HandleEvent ==
    /\ events # <<>>
    /\ events' = Tail(events)
    /\ dirty' = IF Head(events).event = "FILE_MODIFIED"
                     /\ Head(events).path \notin DOMAIN dirty
                THEN (Head(events).path :> now) @@ dirty ELSE dirty
    /\ LET e == Head(events)
           SendPath(command) ==
               /\ inbox' = IF clientConn = "open"
                           THEN Append(inbox, serialize(RequestData(command, NextId,
                                           <<<<"path", StrV(PathText(e.path))>>>>)))
                           ELSE inbox
               /\ UNCHANGED writing
       IN CASE e.event = "DIRECTORY_CREATED" -> SendPath("create-dir")
            [] e.event = "DIRECTORY_REMOVED" -> SendPath("remove-dir")
            [] e.event = "FILE_CREATED" -> UNCHANGED <<inbox, writing>>
            [] e.event = "FILE_MODIFIED" ->
                   /\ writing' = delay_write_file(writing, e.path, now)
                   /\ UNCHANGED inbox
            [] e.event = "FILE_REMOVED" -> SendPath("remove-file")
            [] e.event = "ITEM_MOVED" ->
                   /\ inbox' = IF clientConn = "open"
                               THEN Append(inbox, serialize(
                                        RequestData("move-item", NextId,
                                            <<<<"src_path", StrV(PathText(e.path))>>,
                                              <<"dst_path", StrV(PathText(e.dst_path))>>>>)))
                               ELSE inbox
                   /\ UNCHANGED writing
    /\ UNCHANGED <<bound, remoteFs, handled, localFs, localExec, phase, todo, ops>>
    /\ UNCHANGED <<serverVars, codecVars, clientVars, auxVars, running, pump>>

\* write_file_task finds a path whose delay is over: write_file sends the
\* file as it is now, if it is still a file, and the path is popped
FlushWrite(path) ==
    /\ path \in DOMAIN writing
    /\ pump.at = "sleep"
    /\ writing' = Without(writing, path)
    /\ dirty' = Without(dirty, path)
    /\ inbox' = IF IsFile(localFs, path)
                THEN Append(inbox, serialize(RequestData("write-file", NextId,
                                <<<<"path", StrV(PathText(path))>>,
                                  <<"data", BinV(localFs[path].data)>>,
                                  <<"overwrite", BoolV(TRUE)>>>>)))
                ELSE inbox
    /\ UNCHANGED <<bound, remoteFs, handled, localFs, localExec, phase, todo, events,
                   ops>>
    /\ UNCHANGED <<serverVars, codecVars, clientVars, auxVars, running, pump>>

\* A client and a server whose workspaces hold the same tree: the difference
\* update_workspace gets is empty and it sends nothing
InitWatch ==
    /\ InitReconcile
    /\ localFs = remoteFs
    /\ localExec = {}

NextWatch ==
    \/ Connect(Receiver)
    \/ SyncRequest
    \/ ServerReceive
    \/ UpdateWorkspace
    \/ LocalOperation(Paths \ {Compiled})
    \/ HandleEvent
    \/ \E p \in DOMAIN writing : FlushWrite(p)

SpecWatch == InitWatch /\ [][NextWatch]_vars

\* write_file without its test
NeverRemovedBeforeRead(fs, path) == FALSE

\* write_file's test "File removed before read": os.path.isfile fails
RemovedBeforeRead(fs, path) == ~IsFile(fs, path)

\* write_file_task wakes from its sleep and finds the time of a path has
\* come: write_file drops a path that is no file; else it opens the file,
\* reads the first fragment and waits in send_request, which raises on a
\* connection that is not open.  (The paths are taken in any order.)
PumpStart(path) ==
    /\ pump.at = "sleep"
    /\ running
    /\ path \in DOMAIN writing
    /\ now >= writing[path]
    /\ IF RemovedBeforeRead(localFs, path)
       THEN /\ writing' = Without(writing, path)
            /\ UNCHANGED <<inbox, pump, dirty>>
       ELSE IF clientConn # "open"
       THEN /\ pump' = [pump EXCEPT !.at = "failed"]
            /\ dirty' = Without(dirty, path)
            /\ UNCHANGED <<inbox, writing>>
       ELSE LET fragment == WriteFileLoop(localFs[path].data, 0)[1]
            IN /\ inbox' = Append(inbox, serialize(RequestData("write-file", NextId,
                                      <<<<"path", StrV(PathText(path))>>,
                                        <<"data", BinV(fragment.data)>>,
                                        <<"overwrite", BoolV(fragment.overwrite)>>>>)))
               /\ pump' = [at |-> "stream", path |-> path, offset |-> Len(fragment.data)]
               /\ dirty' = Without(dirty, path)
               /\ UNCHANGED writing
    /\ UNCHANGED <<bound, remoteFs, handled, localFs, localExec, phase, todo, events,
                   ops, running>>
    /\ UNCHANGED <<serverVars, codecVars, clientVars, auxVars>>

\* send_request returns to write_file: after an empty fragment, or when the
\* next read is empty, the file is closed and write_file_task pops the path;
\* else the fragment read is sent.  send_request raises when the connection
\* is no longer open, and that ends write_file_task.
PumpStep ==
    /\ pump.at = "stream"
    /\ IsFile(localFs, pump.path)
    /\ LET rest == WriteFileLoop(localFs[pump.path].data, pump.offset)
       IN IF clientConn # "open"
          THEN /\ pump' = [at |-> "failed", path |-> <<>>, offset |-> 0]
               /\ UNCHANGED <<inbox, writing>>
          ELSE IF pump.offset = 0 \/ rest = <<>>
          THEN /\ pump' = [at |-> "sleep", path |-> <<>>, offset |-> 0]
               /\ writing' = Without(writing, pump.path)
               /\ UNCHANGED inbox
          ELSE /\ inbox' = Append(inbox, serialize(RequestData("write-file", NextId,
                                      <<<<"path", StrV(PathText(pump.path))>>,
                                        <<"data", BinV(rest[1].data)>>,
                                        <<"overwrite", BoolV(rest[1].overwrite)>>>>)))
               /\ pump' = [pump EXCEPT !.offset = pump.offset + Len(rest[1].data)]
               /\ UNCHANGED writing
    /\ UNCHANGED <<bound, remoteFs, handled, localFs, localExec, phase, todo, events,
                   ops, running, dirty>>
    /\ UNCHANGED <<serverVars, codecVars, clientVars, auxVars>>

\* write_file_task wakes from its sleep and finds _running false: it returns
PumpExit ==
    /\ pump.at = "sleep"
    /\ ~running
    /\ pump' = [pump EXCEPT !.at = "exited"]
    /\ UNCHANGED <<inbox, bound, remoteFs, handled, localFs, localExec, phase, todo,
                   events, writing, ops, running, dirty>>
    /\ UNCHANGED <<serverVars, codecVars, clientVars, auxVars>>

\* A client, with or without auto-reconnect, and a server whose workspaces
\* hold the same file "a", of one fragment or of two
InitPump ==
    /\ ServerInit
    /\ CodecIdle
    /\ ClientInit
    /\ autoReconnect \in BOOLEAN
    /\ inbox = <<>>
    /\ bound = FALSE
    /\ handled = <<>>
    /\ localFs \in {[EmptyFs EXCEPT ![<<"a">>] = File(c)] : c \in {<<1>>, <<1, 2, 3>>}}
    /\ remoteFs = localFs
    /\ localExec = {}
    /\ phase = "idle"
    /\ todo = <<>>
    /\ events = <<>>
    /\ writing = <<>>
    /\ ops = 0
    /\ PumpIdle
    /\ AuxIdle

\* The user leaves a file alone that write_file has open, but for writing to it
NextPump ==
    \/ Connect(Receiver)
    \/ SyncRequest
    \/ ServerReceive
    \/ UpdateWorkspace
    \/ LocalOperation({<<"a">>}) /\ (pump.at = "stream" => IsFile(localFs', pump.path))
    \/ HandleEvent
    \/ \E p \in DOMAIN writing : PumpStart(p)
    \/ PumpStep
    \/ PumpExit
    \/ Tick
    \/ ClientConnectionClose
    \/ ClientConnected

SpecPump == InitPump /\ [][NextPump]_vars

\* A client and a server whose workspaces may hold a file "a" and a file
\* that an ignore rule matches
InitIgnore ==
    /\ ServerInit
    /\ CodecIdle
    /\ ClientInit
    /\ autoReconnect = FALSE
    /\ inbox = <<>>
    /\ bound = FALSE
    /\ handled = <<>>
    /\ LET trees == {[EmptyFs EXCEPT ![<<"a">>] = x, ![Compiled] = y] :
                        x \in {Absent, File(<<1>>)}, y \in {Absent, File(<<1>>)}}
       IN /\ remoteFs \in trees
          /\ localFs \in trees
    /\ localExec = {}
    /\ phase = "idle"
    /\ todo = <<>>
    /\ events = <<>>
    /\ writing = <<>>
    /\ ops = 0
    /\ PumpIdle
    /\ AuxIdle

\* Workspace.on_event drops the events of paths with a ".git" component only,
\* and nothing calls on_watch_filter: the events of every path of the model
\* reach the client's callbacks
NextIgnore ==
    \/ NextReconcile
    \/ LocalOperation(Paths)
    \/ HandleEvent
    \/ \E p \in DOMAIN writing : FlushWrite(p)

SpecIgnore == InitIgnore /\ [][NextIgnore]_vars

\* ------------------------------------------------------------------ inotify
MaxFsOps == 3             \* operations done on the watched directory

\* The paths under the watched root: three names, and an entry "x" in each
WatchedTop == {"a", "b", ".git"}
WatchedPaths == {<<n>> : n \in WatchedTop} \cup {<<n, "x">> : n \in WatchedTop}

\* None as a path, and the place of an inode that is in the tree no more
NoPath == <<"">>
Gone == <<"/">>

Name(p) == p[Len(p)]
DirAt(fs, p) == p = <<>> \/ (p \in WatchedPaths /\ fs[p] = "dir")
HasChild(fs, p) == Len(p) = 1 /\ fs[Append(p, "x")] # "none"

\* INotifyWatcher.add_watch: inotify_add_watch returns the descriptor the
\* inode at this path has already, or a new one; _watch_list[wd] = path
add_watch(ws, path) ==
    IF \E i \in 1..Len(ws) : ws[i].at = path
    THEN [i \in 1..Len(ws) |-> IF ws[i].at = path THEN [ws[i] EXCEPT !.path = path]
                                ELSE ws[i]]
    ELSE Append(ws, [path |-> path, at |-> path])

\* INotifyWatcher.add_dir_watch below the root: the directories in it, then
\* the directory
add_dir_watch(ws, fs, path) ==
    add_watch(IF Len(path) = 1 /\ fs[Append(path, "x")] = "dir"
              THEN add_watch(ws, Append(path, "x")) ELSE ws,
              path)

\* AIOWatcher.start: add_dir_watch(root)
RootWatches(fs) ==
    LET AddTop(ws, n) == IF fs[<<n>>] = "dir" THEN add_dir_watch(ws, fs, <<n>>) ELSE ws
    IN add_watch(AddTop(AddTop(AddTop(<<>>, "a"), "b"), ".git"), <<>>)

\* The event the kernel queues for an entry of a directory, if it is watched
Raw(ws, dir, mask, isdir, name, cookie) ==
    LET ids == {i \in 1..Len(ws) : ws[i].at = dir}
    IN IF ids = {} THEN <<>>
       ELSE <<[wd |-> CHOOSE i \in ids : TRUE, mask |-> mask, isdir |-> isdir,
               name |-> name, cookie |-> cookie]>>

\* rename(2) of a file or of a directory with what is in it
MoveTree(fs, p, q) ==
    [r \in WatchedPaths |->
        IF Under(r, q)
        THEN LET o == p \o SubSeq(r, Len(q) + 1, Len(r))
             IN IF o \in WatchedPaths THEN fs[o] ELSE "none"
        ELSE IF Under(r, p) THEN "none" ELSE fs[r]]

\* An operation on the watched directory by any process, with what the
\* kernel queues for it: mkdir, rmdir, the creation of a file, a write to a
\* file, unlink, a rename inside the root, a move out of the root and a
\* move of a file into it.  expected and moves keep what was done.
FsOperations(s) ==
    LET fs == s.fs
        ws == s.watches
        Event(event, path) == <<[event |-> event, path |-> path]>>
        Op(tree, watches, raws, exp, mv, cookies) ==
            [s EXCEPT !.fs = tree, !.watches = watches, !.kq = @ \o raws,
                      !.expected = @ \o exp, !.moves = @ \o mv,
                      !.cookie = @ + cookies, !.nops = @ + 1]
        Free == {p \in WatchedPaths : fs[p] = "none" /\ DirAt(fs, Parent(p))}
        Files == {p \in WatchedPaths : fs[p] = "file"}
        Items == {p \in WatchedPaths : fs[p] # "none"}
        Moved(p, q) == [i \in 1..Len(ws) |->
                           IF Under(ws[i].at, p)
                           THEN [ws[i] EXCEPT !.at = q \o SubSeq(@, Len(p) + 1, Len(@))]
                           ELSE ws[i]]
        Vanished(p) == [i \in 1..Len(ws) |->
                           IF Under(ws[i].at, p) THEN [ws[i] EXCEPT !.at = Gone]
                           ELSE ws[i]]
        Without1(p) == [r \in WatchedPaths |-> IF Under(r, p) THEN "none" ELSE fs[r]]
    IN {Op([fs EXCEPT ![p] = "dir"], ws,
           Raw(ws, Parent(p), "CREATE", TRUE, Name(p), 0),
           Event("DIRECTORY_CREATED", p), <<>>, 0) : p \in Free}
       \cup {Op([fs EXCEPT ![p] = "none"], Vanished(p),
                Raw(ws, Parent(p), "DELETE", TRUE, Name(p), 0),
                Event("DIRECTORY_REMOVED", p), <<>>, 0) :
                p \in {q \in WatchedPaths : fs[q] = "dir" /\ ~HasChild(fs, q)}}
       \cup {Op([fs EXCEPT ![p] = "file"], ws,
                Raw(ws, Parent(p), "CREATE", FALSE, Name(p), 0),
                Event("FILE_CREATED", p), <<>>, 0) : p \in Free}
       \cup {Op(fs, ws, Raw(ws, Parent(p), "MODIFY", FALSE, Name(p), 0),
                Event("FILE_MODIFIED", p), <<>>, 0) : p \in Files}
       \cup {Op([fs EXCEPT ![p] = "none"], ws,
                Raw(ws, Parent(p), "DELETE", FALSE, Name(p), 0),
                Event("FILE_REMOVED", p), <<>>, 0) : p \in Files}
       \cup {Op(MoveTree(fs, x[1], x[2]), Moved(x[1], x[2]),
                Raw(ws, Parent(x[1]), "MOVED_FROM", fs[x[1]] = "dir", Name(x[1]), s.cookie)
                    \o Raw(ws, Parent(x[2]), "MOVED_TO", fs[x[1]] = "dir", Name(x[2]),
                           s.cookie),
                <<>>,
                <<[kind |-> "rename", src |-> x[1], dst |-> x[2],
                   isdir |-> fs[x[1]] = "dir"]>>, 1) :
                x \in {y \in Items \X Free :
                         ~Under(y[2], y[1]) /\ (HasChild(fs, y[1]) => Len(y[2]) = 1)}}
       \cup {Op(Without1(p), Vanished(p),
                Raw(ws, Parent(p), "MOVED_FROM", fs[p] = "dir", Name(p), s.cookie),
                <<>>,
                <<[kind |-> "out", src |-> p, dst |-> NoPath, isdir |-> fs[p] = "dir"]>>,
                1) : p \in Items}
       \cup {Op([fs EXCEPT ![p] = "file"], ws,
                Raw(ws, Parent(p), "MOVED_TO", FALSE, Name(p), s.cookie),
                <<>>,
                <<[kind |-> "in", src |-> NoPath, dst |-> p, isdir |-> FALSE]>>, 1) :
                p \in Free}

\* What leaves the inotify model's other variables alone
InotifyOnly ==
    /\ UNCHANGED <<serverVars, codecVars, clientVars, inbox, bound, remoteFs, handled,
                   localFs, localExec, phase, todo, events, writing, ops, token, auth,
                   term, kev, pumpVars>>

FsOperation ==
    /\ ino # NoWatcher
    /\ ino.nops < MaxFsOps
    /\ ino' \in FsOperations(ino)
    /\ InotifyOnly

\* INotifyWatcher._read_event: os.read takes what the kernel has queued
OsRead ==
    /\ ino # NoWatcher
    /\ ino.kq # <<>>
    /\ ino.buf = <<>>
    /\ ino' = [ino EXCEPT !.buf = ino.kq, !.kq = <<>>]
    /\ InotifyOnly

\* _read_event, one event of the buffer: the target is the path kept for the
\* watch descriptor joined with the name; the event is queued; for a new
\* directory _handle_sub_dir and add_dir_watch follow.
QueueEvent ==
    /\ ino # NoWatcher
    /\ ino.buf # <<>>
    /\ ino.scan.phase = "idle"
    /\ LET e == Head(ino.buf)
           target == ino.watches[e.wd].path \o <<e.name>>
       IN ino' = [ino EXCEPT
                    !.evq = Append(@, [target |-> target, mask |-> e.mask,
                                       isdir |-> e.isdir, cookie |-> e.cookie]),
                    !.scan = IF e.mask = "CREATE" /\ e.isdir
                             THEN [phase |-> "list", dir |-> target] ELSE @,
                    !.buf = IF e.mask = "CREATE" /\ e.isdir THEN @ ELSE Tail(@)]
    /\ InotifyOnly

\* _handle_sub_dir: what os.listdir finds in the new directory is queued as
\* created; os.listdir raises when the directory is there no more, which
\* ends _read_event with the rest of its buffer.
HandleSubDir ==
    /\ ino # NoWatcher
    /\ ino.scan.phase = "list"
    /\ LET dir == ino.scan.dir
           child == Append(dir, "x")
       IN IF ~DirAt(ino.fs, dir)
          THEN ino' = [ino EXCEPT !.buf = <<>>, !.scan = [phase |-> "idle", dir |-> <<>>]]
          ELSE ino' = [ino EXCEPT
                         !.evq = IF HasChild(ino.fs, dir)
                                 THEN Append(@, [target |-> child, mask |-> "CREATE",
                                                 isdir |-> ino.fs[child] = "dir",
                                                 cookie |-> 0])
                                 ELSE @,
                         !.scan = [phase |-> "watch", dir |-> dir]]
    /\ InotifyOnly

\* add_dir_watch(target) at the end of the handling of a new directory; its
\* assertion fails when the directory is there no more
AddDirWatch ==
    /\ ino # NoWatcher
    /\ ino.scan.phase = "watch"
    /\ IF ~DirAt(ino.fs, ino.scan.dir)
       THEN ino' = [ino EXCEPT !.buf = <<>>, !.scan = [phase |-> "idle", dir |-> <<>>]]
       ELSE ino' = [ino EXCEPT
                      !.watches = add_dir_watch(@, ino.fs, ino.scan.dir),
                      !.scan = [phase |-> "idle", dir |-> <<>>],
                      !.buf = Tail(@)]
    /\ InotifyOnly

NoMove == [path |-> NoPath, cookie |-> 0]

\* Workspace.on_event: the path (the source path of a move) has a .git component
GitFiltered(ev) == \E i \in 1..Len(ev.path) : ev.path[i] = ".git"

\* INotifyWatcher.read_event takes one queued event: it returns a WatchEvent
\* for it, keeps an IN_MOVED_FROM target in move_from, or passes over it.
\* AIOWatcher.start cuts the root off the target, which raises for a None
\* source, and calls the callback of the Workspace, whose on_event passes
\* the event to the registered handlers.
ReadEvent ==
    /\ ino # NoWatcher
    /\ ino.alive
    /\ ino.evq # <<>>
    /\ LET e == Head(ino.evq)
           EvCreated == [event |-> IF e.isdir THEN "DIRECTORY_CREATED" ELSE "FILE_CREATED",
                       path |-> e.target, dst |-> NoPath, from |-> 0, to |-> 0]
           EvRemoved == [event |-> IF e.isdir THEN "DIRECTORY_REMOVED" ELSE "FILE_REMOVED",
                       path |-> e.target, dst |-> NoPath, from |-> 0, to |-> 0]
           EvModified == [event |-> "FILE_MODIFIED", path |-> e.target, dst |-> NoPath,
                        from |-> 0, to |-> 0]
           EvItemMoved == [event |-> "ITEM_MOVED", path |-> ino.moveFrom.path,
                         dst |-> e.target, from |-> ino.moveFrom.cookie, to |-> e.cookie]
           Return(ev) ==
               [ino EXCEPT !.evq = Tail(@), !.moveFrom = NoMove,
                           !.out = Append(@, ev),
                           !.alive = ev.path # NoPath,
                           !.disp = IF ev.path = NoPath \/ GitFiltered(ev) THEN @
                                    ELSE Append(@, ev)]
       IN ino' = CASE e.mask = "CREATE" -> Return(EvCreated)
                   [] e.mask = "MODIFY" /\ ~e.isdir -> Return(EvModified)
                   [] e.mask = "MODIFY" /\ e.isdir -> [ino EXCEPT !.evq = Tail(@)]
                   [] e.mask = "DELETE" -> Return(EvRemoved)
                   [] e.mask = "MOVED_FROM" ->
                          [ino EXCEPT !.evq = Tail(@),
                                      !.moveFrom = [path |-> e.target,
                                                    cookie |-> e.cookie]]
                   [] e.mask = "MOVED_TO" -> Return(EvItemMoved)
    /\ InotifyOnly

\* The trees the watcher is started on
WatchedTrees ==
    LET Tree(items) == [p \in WatchedPaths |->
                           IF \E i \in 1..Len(items) : items[i][1] = p
                           THEN (CHOOSE x \in {items[i] : i \in 1..Len(items)} :
                                     x[1] = p)[2]
                           ELSE "none"]
    IN {Tree(<<<<<<".git">>, "dir">>>>),
        Tree(<<<<<<".git">>, "dir">>, <<<<"a">>, "dir">>, <<<<"a", "x">>, "file">>>>),
        Tree(<<<<<<"a">>, "dir">>, <<<<"b">>, "file">>>>)}

\* AIOWatcher.start has added its watches and waits in read_event
InitInotify ==
    /\ ServerInit
    /\ CodecIdle
    /\ ClientInit
    /\ autoReconnect = FALSE
    /\ inbox = <<>>
    /\ bound = FALSE
    /\ remoteFs = EmptyFs
    /\ handled = <<>>
    /\ MirrorIdle
    /\ token = NoText
    /\ auth = [h \in Handlers |-> NoText]
    /\ term = TermIdle
    /\ kev = NoWatcher
    /\ ino \in {[fs |-> fs, watches |-> RootWatches(fs), kq |-> <<>>, buf |-> <<>>,
                 scan |-> [phase |-> "idle", dir |-> <<>>], evq |-> <<>>,
                 moveFrom |-> NoMove, out |-> <<>>, disp |-> <<>>, alive |-> TRUE,
                 expected |-> <<>>, moves |-> <<>>, cookie |-> 1, nops |-> 0] :
                fs \in WatchedTrees}

NextInotify ==
    \/ FsOperation
    \/ OsRead
    \/ QueueEvent
    \/ HandleSubDir
    \/ AddDirWatch
    \/ ReadEvent

SpecInotify == InitInotify /\ [][NextInotify]_vars

\* ------------------------------------------------------------------ kevents
\* The watched subtree: a directory d with a directory e and a file g in
\* it, and a file f in e
ShadowPaths == {<<"d">>, <<"d", "e">>, <<"d", "e", "f">>, <<"d", "g">>}
ShadowDirs == {<<"d">>, <<"d", "e">>}
MaxItemWrites == 1        \* writes to the files of the subtree

\* The entries of a directory node in the order its dict keeps them
NodeItems(path) ==
    IF path = <<"d">> THEN << <<"d", "e">>, <<"d", "g">> >>
    ELSE IF path = <<"d", "e">> THEN << <<"d", "e", "f">> >>
    ELSE <<>>

\* KEventsWatcher._get_dir_node(path) is not None: the shadow tree has a
\* directory node for the path
HasDirNode(shadow, path) == path = <<>> \/ (path \in shadow /\ path \in ShadowDirs)

\* polling_task: the topmost ancestor of a vanished target that does not exist
RemoveRoot(fs, target) ==
    LET n == Min({k \in 1..Len(target) : SubSeq(target, 1, k) \notin fs})
    IN SubSeq(target, 1, n)

\* polling_task._handle_sub_dir: the REMOVED events of what the shadow tree
\* holds below a directory, the entries of an inner directory before it
RECURSIVE handle_sub_dir(_, _)
handle_sub_dir(shadow, path) ==
    LET items == SelectSeq(NodeItems(path), LAMBDA it : it \in shadow)
        EventsFor(it) ==
            IF it \in ShadowDirs
            THEN Append(handle_sub_dir(shadow, it),
                        [event |-> "DIRECTORY_REMOVED", path |-> it])
            ELSE <<[event |-> "FILE_REMOVED", path |-> it]>>
    IN IF Len(items) = 0 THEN <<>>
       ELSE IF Len(items) = 1 THEN EventsFor(items[1])
       ELSE EventsFor(items[1]) \o EventsFor(items[2])

\* polling_task, the body of its loop for one kevent, on the shadow tree,
\* the watch list and the event queue
PollEvent(s, target) ==
    IF target # <<>> /\ target \notin s.fs
    THEN LET remove_root == RemoveRoot(s.fs, target)
         IN [s EXCEPT
               !.evq = IF HasDirNode(s.shadow, remove_root)
                       THEN @ \o handle_sub_dir(s.shadow, remove_root)
                              \o <<[event |-> "DIRECTORY_REMOVED", path |-> remove_root]>>
                       ELSE Append(@, [event |-> "FILE_REMOVED", path |-> remove_root]),
               !.shadow = {q \in @ : ~Under(q, target)},
               !.watch = @ \ {target}]
    ELSE IF target = <<>> \/ target \in ShadowDirs
    THEN s
    ELSE [s EXCEPT !.evq = Append(@, [event |-> "FILE_MODIFIED", path |-> target])]

RECURSIVE PollEvents(_, _)
PollEvents(s, batch) ==
    IF batch = <<>> THEN s
    ELSE PollEvents(PollEvent(s, Head(batch)), Tail(batch))

\* The orders events.sort can leave a batch in: the longest path first
SortedBatches(S) ==
    {b \in [1..Cardinality(S) -> S] :
        /\ \A i, j \in 1..Cardinality(S) : i # j => b[i] # b[j]
        /\ \A i, j \in 1..Cardinality(S) : i < j => Len(b[i]) >= Len(b[j])}

KEventsOnly ==
    /\ UNCHANGED <<serverVars, codecVars, clientVars, inbox, bound, remoteFs, handled,
                   localFs, localExec, phase, todo, events, writing, ops, token, auth,
                   term, ino, pumpVars>>

\* A step of shutil.rmtree on the subtree, or an unlink or rmdir by hand: an
\* item with nothing in it goes, which notes the item and its directory
RemoveItem(path) ==
    /\ kev # NoWatcher
    /\ path \in kev.fs
    /\ \A q \in kev.fs : Under(q, path) => q = path
    /\ kev' = [kev EXCEPT !.fs = @ \ {path},
                          !.pending = @ \cup ({path, Parent(path)} \cap kev.watch)]
    /\ KEventsOnly

\* A write to a watched file
WriteItem(path) ==
    /\ kev # NoWatcher
    /\ path \in kev.fs \ ShadowDirs
    /\ kev.writes < MaxItemWrites
    /\ kev' = [kev EXCEPT !.pending = @ \cup ({path} \cap kev.watch), !.writes = @ + 1]
    /\ KEventsOnly

\* KEventsWatcher.polling_task, one round with events: kqueue.control
\* returns what is pending, the batch is sorted and handled.  The loop has
\* no suspension point; the directory is taken not to change during it.
PollingTask ==
    /\ kev # NoWatcher
    /\ kev.pending # {}
    /\ \E batch \in SortedBatches(kev.pending) :
           kev' = [PollEvents(kev, batch) EXCEPT !.pending = {}]
    /\ KEventsOnly

\* KEventsWatcher.read_event
KReadEvent ==
    /\ kev # NoWatcher
    /\ kev.evq # <<>>
    /\ kev' = [kev EXCEPT !.evq = Tail(@), !.out = Append(@, Head(kev.evq))]
    /\ KEventsOnly

\* add_dir_watch(root) has put the subtree in the shadow tree and watches
\* every item of it and the root
InitKEvents ==
    /\ ServerInit
    /\ CodecIdle
    /\ ClientInit
    /\ autoReconnect = FALSE
    /\ inbox = <<>>
    /\ bound = FALSE
    /\ remoteFs = EmptyFs
    /\ handled = <<>>
    /\ MirrorIdle
    /\ token = NoText
    /\ auth = [h \in Handlers |-> NoText]
    /\ term = TermIdle
    /\ ino = NoWatcher
    /\ kev \in {[fs |-> tree, tree |-> tree, shadow |-> tree,
                 watch |-> tree \cup {<<>>}, pending |-> {}, evq |-> <<>>,
                 out |-> <<>>, writes |-> 0] :
                tree \in {S \in SUBSET ShadowPaths :
                            /\ <<"d">> \in S
                            /\ \A q \in S : Len(q) > 1 => Parent(q) \in S}}

NextKEvents ==
    \/ \E path \in ShadowPaths : RemoveItem(path)
    \/ \E path \in ShadowPaths : WriteItem(path)
    \/ PollingTask
    \/ KReadEvent

SpecKEvents == InitKEvents /\ [][NextKEvents]_vars

\* ==================================================================== claims
Attached(h, s) == conn[h] = "open" /\ hshell[h] = s

Reaped(s) == s \in DOMAIN sessions /\ s \notin DOMAIN sessions'

\* handle_request was called on handler h (request ids count up)
Dispatched(h) == req'[h] # req[h]

\* C1: the reaper never evicts a session while a connected handler holds the
\* session's shell.
C1_ReaperSparesAttached ==
    [][\A s \in DOMAIN sessions :
          Reaped(s) => ~\E h \in Handlers : Attached(h, sessions[s].shell)]_vars

\* C2: for every session, at most one connected handler at a time has the
\* session's shell as its shell handle.
C2_OneHandlerPerSession ==
    \A s \in DOMAIN sessions :
        Cardinality({h \in Handlers : Attached(h, sessions[s].shell)}) <= 1

\* C3: a session detached at t0 with timeout T and not reattached is gone from
\* the registry no later than t0 + T + 1 s, however many sessions there are.
C3_ReapedWithinOneSecond ==
    \A s \in DOMAIN sessions :
        sessions[s].timestamp # 0 =>
            now <= sessions[s].timestamp + sessions[s].timeout + TicksPerSecond

\* C4: no session is reaped before t0 + T, t0 being the timestamp of its
\* latest detach and T its timeout; a reattach resets the timestamp to 0, and
\* a session whose timestamp is 0 is not reaped.
C4_NoEarlyReap ==
    [][/\ \A s \in DOMAIN sessions :
              Reaped(s) => /\ sessions[s].timestamp # 0
                           /\ now >= sessions[s].timestamp + sessions[s].timeout
       /\ \A h \in Handlers :
              (Dispatched(h) /\ hshell[h] = Nil /\ req'[h].session \in DOMAIN sessions)
                  => /\ req'[h].session \in DOMAIN sessions'
                     /\ sessions'[req'[h].session].timestamp = 0
       /\ \A h \in Handlers :
              (conn[h] = "open" /\ conn'[h] = "closed" /\ hsession[h] \in DOMAIN sessions'
                  /\ hshell[h] # Nil)
                  => sessions'[hsession[h]].timestamp = now]_vars

\* C4 witness: a session that was detached, reattached, detached again and
\* then reaped.
C4_Witness ==
    \E s \in 1..sessionSeq, h \in Handlers :
        /\ s \notin DOMAIN sessions
        /\ req[h].session = s
        /\ hsession[h] = s
        /\ conn[h] = "closed"

\* C5: a create-shell request naming a registered session, on a handler with
\* no shell, attaches that session's shell without spawning a process, sets
\* the session's detach timestamp to 0, starts the forwarding loop and is
\* answered with code 0.
C5_Reattach ==
    [][\A h \in Handlers :
          (Dispatched(h) /\ hshell[h] = Nil /\ req'[h].session \in DOMAIN sessions)
              => /\ hshell'[h] = sessions[req'[h].session].shell
                 /\ hsession'[h] = req'[h].session
                 /\ shells' = shells
                 /\ spawn' = spawn
                 /\ DOMAIN sessions' = DOMAIN sessions
                 /\ sessions'[req'[h].session].timestamp = 0
                 /\ floop'[h] = "sched"
                 /\ sent'[h] = Response(req'[h], 0, <<"">>, Nil)]_vars

\* C5 witness: a handler that reattached a detached session and was answered
\* with code 0.
C5_Witness ==
    \E h, g \in Handlers :
        /\ g # h
        /\ conn[g] = "closed"
        /\ hsession[g] = req[h].session
        /\ req[h].session \in DOMAIN sessions
        /\ hshell[h] = sessions[req[h].session].shell
        /\ sent[h].type = RESPONSE
        /\ sent[h].code = 0
        /\ floop[h] = "sched"


\* C6: once a session was detached by a close and reattached by a new
\* connection, no chunk the shell writes from the reattach on is consumed by
\* the forwarding loop of the closed connection.  (The close nulled the
\* handler's shell handle and stamped the session; timestamp 0 shows the
\* reattach to be the later of the two.)
C6_NoChunkToClosedLoop ==
    \A g, h \in Handlers :
        (/\ conn[g] = "closed"
         /\ hshell[g] = Nil
         /\ floop[g] = "got"
         /\ Attached(h, fshell[g])
         /\ req[h].session # Nil
         /\ hsession[g] = hsession[h]
         /\ hsession[h] \in DOMAIN sessions
         /\ sessions[hsession[h]].timestamp = 0
         /\ Cardinality({f \in Handlers : hsession[f] = hsession[h]}) = 2)
            => \A i \in 1..Len(fres[g]) : fres[g][i] <= mark[h]

\* C7: a close on a handler that holds a shell nulls the shell handle, and
\* either stamps the handler's session with the current time leaving the shell
\* alone, or (no session id) writes exit to the shell; a close on a handler
\* without a shell changes neither registry nor shells.
C7_Close ==
    [][\A h \in Handlers :
          (conn[h] = "open" /\ conn'[h] = "closed")
              => IF hshell[h] = Nil
                 THEN sessions' = sessions /\ shells' = shells
                 ELSE /\ hshell'[h] = Nil
                      /\ IF hsession[h] = Nil
                         THEN /\ shells' = ShellExit(shells, hshell[h])
                              /\ sessions' = sessions
                         ELSE /\ shells' = shells
                              /\ hsession[h] \in DOMAIN sessions'
                              /\ sessions'[hsession[h]].timestamp = now]_vars

\* C8 as stated: every create-shell request naming a session that is not
\* registered is answered with code -1 and "Shell session <id> not found".
C8_Original ==
    [][\A h \in Handlers :
          (Dispatched(h) /\ req'[h].session # Nil /\ req'[h].session \notin DOMAIN sessions)
              => sent'[h] = Response(req'[h], -1, NotFoundMessage(req'[h].session), Nil)]_vars

\* C8 amended: a create-shell request naming a session that is not registered,
\* on a handler that holds no shell, is answered with code -1 and "Shell
\* session <id> not found", and leaves the handler's shell handle and session
\* id and the registry unchanged; no shell is spawned.
C8_NotFound ==
    [][\A h \in Handlers :
          (/\ Dispatched(h)
           /\ hshell[h] = Nil
           /\ req'[h].session # Nil
           /\ req'[h].session \notin DOMAIN sessions)
              => /\ sent'[h] = Response(req'[h], -1, NotFoundMessage(req'[h].session), Nil)
                 /\ hshell'[h] = Nil
                 /\ hsession'[h] = hsession[h]
                 /\ sessions' = sessions
                 /\ shells' = shells
                 /\ spawn' = spawn
                 /\ floop' = floop]_vars

\* C8 witness: a handler without a shell was answered "not found".
C8_Witness ==
    \E h \in Handlers :
        /\ conn[h] = "open"
        /\ hshell[h] = Nil
        /\ req[h].session # Nil
        /\ req[h].session \notin DOMAIN sessions
        /\ sent[h] = Response(req[h], -1, NotFoundMessage(req[h].session), Nil)

\* C9 as stated: once a detached session's timeout has elapsed without a
\* reattach, a create-shell naming that session is answered with code -1.
\* (Instants at which the reaper is due are left out: there the order of the
\* reaper and the request is open.)
C9_Original ==
    [][\A h \in Handlers :
          (/\ Dispatched(h)
           /\ req'[h].session \in DOMAIN sessions
           /\ Expired(req'[h].session)
           /\ now # reaperWake)
              => sent'[h].code = -1]_vars

\* C9 amended: once the reaper has evicted a detached session, which it does
\* only with the timeout elapsed, the session's shell has been sent exit, the
\* session id stays out of the registry, and any later create-shell naming it
\* is answered with code -1 and attaches nothing.
C9_AfterReap ==
    [][/\ \A s \in DOMAIN sessions :
              Reaped(s) => /\ Expired(s)
                           /\ shells' = ShellExit(shells, sessions[s].shell)
       /\ \A s \in 1..sessionSeq : s \notin DOMAIN sessions => s \notin DOMAIN sessions'
       /\ \A h \in Handlers :
              (/\ Dispatched(h)
               /\ req'[h].session \in 1..sessionSeq
               /\ req'[h].session \notin DOMAIN sessions)
                  => /\ sent'[h].type = RESPONSE
                     /\ sent'[h].id = req'[h].id
                     /\ sent'[h].code = -1
                     /\ hshell'[h] = hshell[h]]_vars

\* C9 witness: a create-shell naming a reaped session was answered with -1.
C9_Witness ==
    \E h \in Handlers :
        /\ req[h].session \in 1..sessionSeq
        /\ req[h].session \notin DOMAIN sessions
        /\ shells[1].stdinExit + shells[Len(shells)].stdinExit > 0
        /\ sent[h] = Response(req[h], -1, NotFoundMessage(req[h].session), Nil)

\* C10: when the last chunk of two packets written back to back has been
\* delivered, the receiver (server handler or client connection) has
\* dispatched both packets, in the order they were written.
C10_BothDispatched ==
    (wire = <<>> /\ (peer = "server" => conn[Receiver] = "open"))
        => dispatched = [i \in 1..Len(packets) |-> AsLoaded(packets[i])]

\* The buffer deserialize is called with in a step that delivers a chunk
Fed == recvBuffer \o SubSeq(wire, 1, Len(wire) - Len(wire'))

\* C11 as stated: deserialize(serialize(m)) returns m itself and an empty
\* buffer; a buffer of fewer than 4 bytes, or of fewer than 4 + length bytes,
\* yields no packet and is kept as it is.
C11_Original ==
    [][wire' # wire =>
          /\ \A k \in 1..Len(packets) :
                 Fed = serialize(packets[k])
                     => /\ dispatched' = Append(dispatched, packets[k])
                        /\ recvBuffer' = <<>>
          /\ (Len(Fed) < 4 \/ Len(Fed) < 4 + FromBigEndian(SubSeq(Fed, 1, 4)))
                 => /\ dispatched' = dispatched
                    /\ recvBuffer' = Fed]_vars

\* C11 amended: deserialize(serialize(m)) returns an empty buffer and m with
\* every tuple replaced by the list of its items (m itself when it holds no
\* tuple); a buffer of fewer than 4 bytes, or of fewer than 4 + length bytes,
\* yields no packet and is kept as it is.
C11_RoundTrip ==
    [][wire' # wire =>
          /\ \A k \in 1..Len(packets) :
                 Fed = serialize(packets[k])
                     => /\ dispatched' = Append(dispatched, AsLoaded(packets[k]))
                        /\ recvBuffer' = <<>>
                        /\ (\A i \in 1..Len(packets[k]) : packets[k][i][2].t # "tuple")
                               => AsLoaded(packets[k]) = packets[k]
          /\ (Len(Fed) < 4 \/ Len(Fed) < 4 + FromBigEndian(SubSeq(Fed, 1, 4)))
                 => /\ dispatched' = dispatched
                    /\ recvBuffer' = Fed]_vars

\* C11 witness: a resize-shell request went through serialize and
\* deserialize, its size came back as a list, nothing is left in the buffer.
C11_Witness ==
    /\ recvBuffer = <<>>
    /\ \E i \in 1..Len(dispatched) :
           /\ Get(dispatched[i], "command").s = "resize-shell"
           /\ Get(dispatched[i], "size") = ListV(<<200, 50>>)

\* C12: in the client-to-server direction every request carries an id
\* strictly greater than the id of every request written before it, also
\* across a rebuilt connection.
C12_IdsIncrease ==
    \A i, j \in 1..Len(requested) : i < j => requested[i].id < requested[j].id

\* C13: whatever read_response(request) returns is the response to that very
\* request, mirroring its id and its command.
C13_ResponseMatches ==
    \A e \in returned :
        /\ e.response.type = RESPONSE
        /\ e.response.id = e.request.id
        /\ e.response.command = e.request.command
        /\ e.conn = e.request.conn

\* C14: every request whose command is outside the dispatch set of
\* handle_request is answered with a response carrying code -1 and a message.
UnknownCommands == {"list-dir"}

C14_UnknownAnswered ==
    \A i \in 1..Len(handled) :
        Get(handled[i].request, "command").s \in UnknownCommands
            => \E j \in 1..Len(handled[i].replies) :
                  /\ Get(handled[i].replies[j], "code").n = -1
                  /\ Get(handled[i].replies[j], "message").s # ""

\* C15: when handle_request raises, one response is written, carrying code
\* -1 and the id and the command of the request, and the connection stays
\* open with its workspace binding, its shell handle and its decode buffer
\* as a request that returns leaves them; the request after it is handled
\* as any other.
Raising == handled' # handled /\ handled'[Len(handled')].error # ""

C15_RaiseAnswered ==
    [][Raising =>
          LET h == handled'[Len(handled')]
          IN /\ Len(h.replies) = 1
             /\ Get(h.replies[1], "type").n = RESPONSE
             /\ Get(h.replies[1], "code").n = -1
             /\ Get(h.replies[1], "id") = Get(h.request, "id")
             /\ Get(h.replies[1], "command") = Get(h.request, "command")
             /\ conn'[Receiver] = "open"
             /\ bound' = bound
             /\ hshell' = hshell
             /\ recvBuffer' = <<>>]_vars

\* a request was handled normally after one that raised
C15_Witness ==
    \E i \in 1..Len(handled) :
        /\ i > 1
        /\ handled[i - 1].error # ""
        /\ handled[i].error = ""
        /\ Get(handled[i].request, "command").s = "write-file"
        /\ remoteFs[PathOf(Get(handled[i].request, "path").s)] = File(<<1>>)

\* C16: when a forwarding loop sends exit-shell, no chunk the shell wrote
\* is left in the buffer of its stdout, unsent.
C16_NothingLeftUnsent ==
    [][\A h \in Handlers :
          (sequence'[h] # sequence[h] /\ sent'[h].command = "exit-shell"
             /\ hshell[h] # Nil)
              => shells[hshell[h]].buffer = <<>>]_vars

\* The same files with the same contents (hence the same directories that
\* hold a file)
SameFiles(fs1, fs2) ==
    \A p \in Paths : (fs1[p].kind = "file" \/ fs2[p].kind = "file") => fs1[p] = fs2[p]

\* update_workspace has returned and every request it wrote was handled
Reconciled == phase = "watching" /\ todo = <<>> /\ inbox = <<>>

C19_DiffOfEqualIsEmpty ==
    /\ diff(snapshot(localFs, <<>>), snapshot(localFs, <<>>)) = <<>>
    /\ diff(snapshot(remoteFs, <<>>), snapshot(remoteFs, <<>>)) = <<>>
    /\ (phase \in {"watching", "raised"} /\ Len(handled) = 1
          /\ snapshot(localFs, <<>>) = snapshot(remoteFs, <<>>))
          => (phase = "watching" /\ todo = <<>> /\ inbox = <<>>)

\* a workspace holding a directory with a file was reconciled against an
\* identical remote
C19_Witness ==
    /\ phase = "watching"
    /\ Len(handled) = 1
    /\ localFs = remoteFs
    /\ localFs[<<"a", "f">>].kind = "file"
    /\ localFs[<<"b">>].kind = "file"

\* What C20 says of d = diff(local, remote), at every level of the trees
RECURSIVE DiffAsSpecified(_, _, _)
DiffAsSpecified(local, remote, d) ==
    LET Keys(m) == {m[i][1] : i \in 1..Len(m)}
    IN /\ \A i, j \in 1..Len(d) : d[i][1] = d[j][1] => i = j
       /\ Keys(d) \subseteq Keys(local) \cup Keys(remote)
       /\ \A k \in Keys(local) \ Keys(remote) : Has(d, k) /\ Get(d, k) = Get(local, k)
       /\ \A k \in Keys(remote) \ Keys(local) : Has(d, k) /\ Get(d, k) = StrV("-")
       /\ \A k \in Keys(local) \cap Keys(remote) :
             LET v1 == Get(local, k)
                 v2 == Get(remote, k)
             IN IF v1.t = "map" /\ v2.t = "map"
                THEN LET sub == diff(v1.b, v2.b)
                     IN /\ DiffAsSpecified(v1.b, v2.b, sub)
                        /\ IF sub = <<>> THEN ~Has(d, k)
                           ELSE Has(d, k) /\ Get(d, k) = MapV(sub)
                ELSE IF v1 = v2 THEN ~Has(d, k)
                ELSE Has(d, k) /\ Get(d, k) = v1

\* C20: diff(local, remote) holds exactly the keys only in local, with their
\* local payload, the keys only in remote, with "-", and the keys in both
\* whose payloads differ, with the local payload (for directories their
\* recursive diff), and no key whose recursive diff is empty.
C20_DiffContents ==
    DiffAsSpecified(snapshot(localFs, <<>>), snapshot(remoteFs, <<>>),
                    diff(snapshot(localFs, <<>>), snapshot(remoteFs, <<>>)))

\* local {files: {a: H1}} against remote {files: {a: H2, b: H1}} gives
\* {files: {a: H1, b: "-"}}
C20_Witness ==
    /\ localFs = [EmptyFs EXCEPT ![<<"a">>] = File(<<1>>)]
    /\ remoteFs = [EmptyFs EXCEPT ![<<"a">>] = File(<<2>>), ![<<"b">>] = File(<<1>>)]
    /\ diff(snapshot(localFs, <<>>), snapshot(remoteFs, <<>>))
         = <<<<"files", MapV(<<<<"a", StrV(Md5(<<1>>))>>, <<"b", StrV("-")>>>>)>>>>
    /\ phase = "watching"
    /\ Len(handled) = 1
    /\ Len(todo) = 2

\* Every watcher event is handled, every delayed write flushed, every
\* request handled, and the connection is open
Quiescent ==
    /\ phase = "watching"
    /\ todo = <<>>
    /\ events = <<>>
    /\ DOMAIN writing = {}
    /\ inbox = <<>>
    /\ conn[Receiver] = "open"

RequestPaths(request) ==
    {PathOf(request[i][2].s) :
        i \in {j \in 1..Len(request) : request[j][1] \in {"path", "src_path", "dst_path"}}}

WriteFiles == SelectSeq(handled, LAMBDA e : Get(e.request, "command").s = "write-file")

RECURSIVE WrittenData(_)
WrittenData(es) ==
    IF es = <<>> THEN <<>> ELSE Get(es[1].request, "data").b \o WrittenData(Tail(es))

\* update_workspace has returned and the server has handled all it wrote
FragmentsApplied == phase = "watching" /\ todo = <<>> /\ inbox = <<>> /\ handled # <<>>

WalkDone == phase = "watching" /\ Len(handled) = 1 /\ inbox = <<>>

\* update_workspace wrote this command for this path
Walked(command, path) ==
    \E i \in 1..Len(todo) :
        /\ todo[i].command = command
        /\ Get(todo[i].kwargs, "path").s = PathText(path)

SyncEnded == phase \in {"watching", "raised"} /\ todo = <<>> /\ inbox = <<>>

C29_TokenGuardsUpgrade ==
    /\ \A h \in Handlers :
          conn[h] \in {"open", "refused"} =>
              (conn[h] = "open") = (token = NoText \/ auth[h] = TokenSpace \o token)
    /\ conn[Receiver] = "refused" => handled = <<>>

\* write_file opens this path in the step
StreamStarts(p) == pump.at # "stream" /\ pump'.at = "stream" /\ pump'.path = p

PumpAlive == pump.at \in {"sleep", "stream"} /\ running /\ clientConn = "open"

Detached ==
    /\ term.session # Nil
    /\ \A i \in 1..Len(term.sent) : term.sent[i].conn < connGen

\* The client wrote a create-shell request with its session id on its
\* current connection
Reattached ==
    \E i \in 1..Len(term.sent) :
        term.sent[i].conn = connGen /\ term.sent[i].session = term.session

\* C27: when the connection closes in a session, a client with
\* auto-reconnect builds a new connection and sends create-shell with its
\* stored session id on it; a client without auto-reconnect leaves its loop
\* and stops.
C27_ReattachOrStop ==
    /\ (autoReconnect /\ Detached) ~> Reattached
    /\ (~autoReconnect /\ clientConn = "closed") ~> term.stopped

\* A forwarding loop of a closed connection that waits for its shell waits
\* for a shell that is exiting
ClosedLoopEnds(h) ==
    (conn[h] = "closed" /\ floop[h] = "wait")
        => (shells[fshell[h]].dead \/ shells[fshell[h]].stdinExit > 0)

\* C28: after a connection has closed its loops end without any further
\* output of the shell: the forwarding loop of the closed handler does not
\* rest in a read that only output or the exit of a running shell ends.
C28_LoopsEndAfterClose == \A h \in Handlers : ClosedLoopEnds(h)

\* C31: the assertion of update_session_time holds wherever it is called:
\* a handler that closes holding a shell and a session id, and a handler that
\* reattaches a session, finds the session id in the registry.
C31_AssertHolds ==
    [][\A h \in Handlers :
          /\ (conn[h] = "open" /\ conn'[h] = "closed" /\ hshell[h] # Nil
                  /\ hsession[h] # Nil)
                => hsession[h] \in DOMAIN sessions
          /\ (hshell[h] = Nil /\ hshell'[h] # Nil /\ req'[h].session # Nil)
                => req'[h].session \in DOMAIN sessions]_vars

\* The shell of this session has exited and no handler holds it
Orphaned(s) ==
    /\ shells[sessions[s].shell].returncode
    /\ \A h \in Handlers : hshell[h] # sessions[s].shell /\ floop[h] = "none"

\* C32: a session whose shell has exited is removed from the registry in the
\* end: once the forwarding loop has sent exit-shell and nulled the handler's
\* shell, the session carries a time from which the reaper counts.
C32_DeadSessionReaped ==
    \A s \in DOMAIN sessions : Orphaned(s) => sessions[s].timestamp # 0

\* The path of the i-th request the server handled, if it is a write-file
WritePath(i) ==
    IF Get(handled[i].request, "command").s = "write-file"
    THEN Get(handled[i].request, "path").s ELSE ""

DropsRemoved(p) == p \in DOMAIN writing /\ p \notin DOMAIN writing' /\ ~IsFile(localFs, p)

Drained ==
    /\ ino # NoWatcher
    /\ ino.kq = <<>>
    /\ ino.buf = <<>>
    /\ ino.evq = <<>>
    /\ ino.scan.phase = "idle"

\* The names of the events of a sequence that carry this path, moves apart
EventsOf(seq, p) ==
    LET S == SelectSeq(seq, LAMBDA e : e.path = p /\ e.event # "ITEM_MOVED")
    IN [i \in 1..Len(S) |-> S[i].event]

\* C33: once the backend has seen all that was done under the root, the
\* callbacks invoked for each path are those of the operations on that
\* path, in the order of the operations, with the path relative to the root
C33_PerPathOrder ==
    Drained => \A p \in WatchedPaths : EventsOf(ino.out, p) = EventsOf(ino.expected, p)

\* Only directories and files have been created
OnlyCreated ==
    /\ ino.moves = <<>>
    /\ \A i \in 1..Len(ino.expected) :
           ino.expected[i].event \in {"DIRECTORY_CREATED", "FILE_CREATED"}

\* The positions in the returned events of the CREATED events for a path
CreatedAt(p) ==
    {i \in 1..Len(ino.out) :
        ino.out[i].path = p /\ ino.out[i].event \in {"DIRECTORY_CREATED", "FILE_CREATED"}}

\* C34: after a deep create, however its steps interleave with the handling
\* of the first directory's event, each created directory and file has
\* exactly one CREATED event, after the CREATED event of its parent
C34_OneCreatedEach ==
    (Drained /\ OnlyCreated) =>
        \A i \in 1..Len(ino.expected) :
            LET p == ino.expected[i].path
            IN /\ Cardinality(CreatedAt(p)) = 1
               /\ \A j \in CreatedAt(p) : \A k \in CreatedAt(Parent(p)) : k < j

\* C36: every ITEM_MOVED the backend returns has a source path inside the
\* root and comes from an IN_MOVED_FROM and an IN_MOVED_TO with one cookie
C36_MovedIsCorrelated ==
    ino # NoWatcher =>
        \A i \in 1..Len(ino.out) :
            ino.out[i].event = "ITEM_MOVED" =>
                ino.out[i].path # NoPath /\ ino.out[i].from = ino.out[i].to

\* C37: once the backend has seen all that was done, an item that was moved
\* out of the watched tree has a FILE_REMOVED or DIRECTORY_REMOVED event
\* for its path, by what it was
C37_MovedOutIsRemoved ==
    Drained =>
        \A i \in 1..Len(ino.moves) :
            ino.moves[i].kind = "out" =>
                \E j \in 1..Len(ino.out) :
                    /\ ino.out[j].path = ino.moves[i].src
                    /\ ino.out[j].event = IF ino.moves[i].isdir THEN "DIRECTORY_REMOVED"
                                          ELSE "FILE_REMOVED"

HasGit(path) == \E i \in 1..Len(path) : path[i] = ".git"

\* C39: no event passed to the registered handlers has a .git component in
\* its path, nor, for ITEM_MOVED, in its destination path
C39_NoGitDispatched ==
    ino # NoWatcher =>
        \A i \in 1..Len(ino.disp) :
            ~HasGit(ino.disp[i].path) /\ ~HasGit(ino.disp[i].dst)

\* The events the kevents backend has emitted, read or still queued
Emitted == kev.out \o kev.evq

\* The positions of the REMOVED events emitted for a path
RemovedAt(p) ==
    {i \in 1..Len(Emitted) :
        Emitted[i].path = p /\ Emitted[i].event \in {"DIRECTORY_REMOVED", "FILE_REMOVED"}}

\* The subtree is gone and the backend has handled every kevent for it
SubtreeVanished ==
    /\ kev # NoWatcher
    /\ kev.fs = {}
    /\ kev.pending = {}

\* C35: once a subtree has vanished and the backend has handled it, each
\* file and directory of it has exactly one REMOVED event, the events of
\* what a directory held come before the directory's, and the shadow tree
\* holds nothing of the subtree
C35_PostOrderRemoved ==
    SubtreeVanished =>
        /\ \A p \in kev.tree : Cardinality(RemovedAt(p)) = 1
        /\ \A p, q \in kev.tree :
               (q # p /\ Under(q, p)) =>
                   \A i \in RemovedAt(q) : \A j \in RemovedAt(p) : i < j
        /\ kev.shadow = {}

====
